---- MODULE Spec2Model ----
(***************************************************************************)
(* AgentCoordProtocol (contracts/AgentCoordProtocol.sol) as a state        *)
(* machine.  One action per external function.  A function that makes an   *)
(* external call (executeReview: buyJob and the fee payments; claimTokens: *)
(* token.transfer) is split at each call: while the call is pending the    *)
(* callee is untrusted code, so every external function of the contract    *)
(* may be entered again (reentrancy), and the call then returns or         *)
(* reverts.  A revert restores the storage saved when the reverted code    *)
(* began, as the EVM does.  A call rejected by a require changes nothing   *)
(* and is a stuttering step; the message it reverts with is given by the   *)
(* ...Result operator of the function, which is also the action's guard.   *)
(*                                                                         *)
(* Left out: the strings (thesis text, metadataURI) and the signature      *)
(* bytes, which the contract only stores; gas.                             *)
(***************************************************************************)
EXTENDS Integers, Sequences, FiniteSets, TLC

\* ------------------------------------------------------------------ bounds

MaxTime == 2        \* block.timestamp ranges over 0..MaxTime
MaxReviews == 2     \* submitToken succeeds at most this often
MaxReentries == 1   \* calls back into the contract within one transaction
MaxTokens == 2      \* tokens the venue delivers in one buyJob: 0..MaxTokens
MaxValue == 2       \* msg.value of depositForAgent: 0..MaxValue
MaxEscrow == 2      \* deposits stop once an escrow balance would exceed this
MaxPledge == 2      \* pledgedAmount argument of submitThesis: 0..MaxPledge
MaxLimit == 2       \* maxAmount argument of registerDelegation: 0..MaxLimit
MaxFee == 3         \* msg.value of submitToken: 0..MaxFee
MaxTrades == 2      \* updateReputation succeeds at most this often per agent

\* constructor arguments (immutables)
MIN_SUBMISSION_FEE == 1
REVIEW_WINDOW == 1

\* constants of the contract
REPUTATION_WIN_DELTA == 1
REPUTATION_LOSS_DELTA == 1

\* HederaResponseCodes.SUCCESS, and a response code that is not
SUCCESS == 22
UNKNOWN == 21

\* ---------------------------------------------------------------- addresses

Null == "0x0"                     \* address(0)
Principals == {"p1", "p2"}        \* callers of the delegation functions
Agents == {"a1", "a2", "a3"}      \* callers of submitThesis / claimTokens
Creator == "c1"                   \* caller of submitToken
Owner == "o1"                     \* the deployer: `owner`
AgentArgs == Agents \cup {Null}   \* values of an `address agentAddress` argument
ListedTokens == {"t1"}            \* tokens MemeJob knows
TokenArgs == {Null, "t1", "tX"}   \* values of an `address tokenAddress` argument
ReviewIds == 0 .. (MaxReviews - 1)

\* ------------------------------------------------- zero values of the structs

NoDelegation == [delegator |-> Null, delegate |-> Null, maxAmount |-> 0, expiry |-> 0]

NoThesis == [agent |-> Null, bullish |-> FALSE, pledgedAmount |-> 0, submittedAt |-> 0]

NoShare == [pledgedAmount |-> 0, tokenShare |-> 0, claimed |-> FALSE]

NoIdentity ==
    [agentAddress |-> Null, registrationTime |-> 0, reputationScore |-> 0,
     totalTrades |-> 0, profitableTrades |-> 0]

NoReview ==
    [tokenAddress |-> Null, creator |-> Null, submissionFee |-> 0, deadline |-> 0,
     executed |-> FALSE, exists |-> FALSE, totalPledged |-> 0, totalPurchased |-> 0,
     scheduleAddress |-> Null]

\* --------------------------------------------------------------------- state

VARIABLES
    env,            \* the callers and arguments the environment uses (fixed at Init)
    now,            \* block.timestamp
    nextReviewId,
    reviews,        \* reviewId -> TokenReview
    theses,         \* reviewId -> agent -> AgentThesis
    reviewAgents,   \* reviewId -> sequence of agents, in submission order
    agentShares,    \* reviewId -> agent -> AgentShare
    delegations,    \* delegator -> agent -> Delegation
    agentIdentities, \* agent -> AgentIdentity
    agentEscrow,    \* agent -> HBAR held for the agent
    balance,        \* address(this).balance
    tokenBal,       \* token -> token.balanceOf(address(this))
    hist,           \* history (not contract storage): what has happened so far
    stack           \* the pending external calls, outermost first

vars == <<env, now, nextReviewId, reviews, theses, reviewAgents, agentShares,
          delegations, agentIdentities, agentEscrow, balance, tokenBal, hist, stack>>

\* Everything a revert rolls back: the storage, the balances and the history of
\* effects (a reverted call has none).
Save ==
    [nextReviewId |-> nextReviewId, reviews |-> reviews, theses |-> theses,
     reviewAgents |-> reviewAgents, agentShares |-> agentShares,
     delegations |-> delegations, agentIdentities |-> agentIdentities,
     agentEscrow |-> agentEscrow, balance |-> balance,
     tokenBal |-> tokenBal, hist |-> hist]

Restore(s) ==
    /\ nextReviewId' = s.nextReviewId
    /\ reviews' = s.reviews
    /\ theses' = s.theses
    /\ reviewAgents' = s.reviewAgents
    /\ agentShares' = s.agentShares
    /\ delegations' = s.delegations
    /\ agentIdentities' = s.agentIdentities
    /\ agentEscrow' = s.agentEscrow
    /\ balance' = s.balance
    /\ tokenBal' = s.tokenBal
    /\ hist' = s.hist

\* hist.deposited[a]   : sum of msg.value over the successful depositForAgent(a)
\* hist.executions[r]  : number of executeReview(r) that returned without revert
\* hist.purchases[r]   : number of buyJob calls made for review r
\* hist.spent[r]       : HBAR sent to buyJob for review r
\* hist.delivered[r]   : tokens the venue delivered in the buyJob for review r
\* hist.feeRuns[r]     : number of runs of _distributeSubmissionFee(r)
\* hist.paid[r][a]     : HBAR paid to a by _distributeSubmissionFee(r)
\* hist.unpaid[r][a]   : number of fee payments of review r to a that failed
\* hist.announced[r]   : number of ReviewExecuted(r, ..) events
\* hist.claims[r][a]   : number of claimTokens(r) by a that returned without revert
\* hist.received[r][a] : tokens transferred to a by claimTokens(r)
InitHist ==
    [deposited  |-> [a \in AgentArgs |-> 0],
     executions |-> [r \in ReviewIds |-> 0],
     purchases  |-> [r \in ReviewIds |-> 0],
     spent      |-> [r \in ReviewIds |-> 0],
     delivered  |-> [r \in ReviewIds |-> 0],
     feeRuns    |-> [r \in ReviewIds |-> 0],
     paid       |-> [r \in ReviewIds |-> [a \in Agents |-> 0]],
     unpaid     |-> [r \in ReviewIds |-> [a \in Agents |-> 0]],
     announced  |-> [r \in ReviewIds |-> 0],
     claims     |-> [r \in ReviewIds |-> [a \in Agents |-> 0]],
     received   |-> [r \in ReviewIds |-> [a \in Agents |-> 0]]]

\* -------------------------------------------------------------- environment
\* The contract is driven by its callers.  Each environment fixes who calls and
\* with which arguments; the contract starts from the same state in each.
\*   principals : callers of registerDelegation / revokeDelegation
\*   depositors : callers of depositForAgent
\*   agentArgs  : their agentAddress argument
\*   limits, expiries, values : maxAmount, expiry, msg.value (deposit)
\*   maxEscrow  : deposits stop once an escrow balance would exceed this
\*   registrants : callers of registerAgent
\*   updaters   : callers of updateReputation
\*   agents     : callers of submitThesis / claimTokens
\*   stances, pledges : bullish, pledgedAmount
\*   tokenArgs, fees, reviews : tokenAddress, msg.value (submitToken), number of reviews
\*   submitBy   : the latest block.timestamp at which submitToken is called
\*   deliveries : tokens the venue delivers in a buyJob
\*   reenter    : the callee of a pending external call calls back into the contract
\*   failing    : the external calls that may fail, among AllCalls

AllCalls == {"buyJob", "fee", "transfer", "scheduleCall"}

\* The delegation and escrow ledger: two principals, one agent, the null agent.
LedgerEnv ==
    [name |-> "ledger", principals |-> Principals,
     depositors |-> Principals, agentArgs |-> {"a1", Null},
     limits |-> 0 .. MaxLimit, expiries |-> {0, 1}, values |-> 0 .. MaxValue,
     maxEscrow |-> MaxEscrow,
     registrants |-> {}, updaters |-> {},
     agents |-> {"a1"}, stances |-> {TRUE, FALSE}, pledges |-> 0 .. MaxPledge,
     tokenArgs |-> {"t1"}, fees |-> {MIN_SUBMISSION_FEE}, reviews |-> 1,
     submitBy |-> MaxTime,
     deliveries |-> {1}, reenter |-> FALSE, failing |-> {}]

\* Allocation and fee distribution: one principal, two agents, every amount.
AllocationEnv ==
    [name |-> "allocation", principals |-> {"p1"},
     depositors |-> {"p1"}, agentArgs |-> {"a1", "a2"},
     limits |-> {MaxLimit}, expiries |-> {0}, values |-> {MaxValue},
     maxEscrow |-> MaxEscrow,
     registrants |-> {}, updaters |-> {},
     agents |-> {"a1", "a2"}, stances |-> {TRUE, FALSE}, pledges |-> 1 .. MaxPledge,
     tokenArgs |-> TokenArgs, fees |-> 0 .. MaxFee, reviews |-> 1,
     submitBy |-> MaxTime,
     deliveries |-> 0 .. MaxTokens, reenter |-> FALSE, failing |-> AllCalls]

\* Reentrancy: the venue, the fee recipient and the token call back; one agent
\* pledges on several reviews of the same token, all submitted in the first block.
ReentrancyEnv ==
    [name |-> "reentrancy", principals |-> {"p1"},
     depositors |-> {"p1"}, agentArgs |-> {"a1"},
     limits |-> {1}, expiries |-> {0}, values |-> {1},
     maxEscrow |-> MaxEscrow,
     registrants |-> {}, updaters |-> {},
     agents |-> {"a1"}, stances |-> {TRUE}, pledges |-> {1},
     tokenArgs |-> {"t1"}, fees |-> {MIN_SUBMISSION_FEE}, reviews |-> MaxReviews,
     submitBy |-> 0,
     deliveries |-> {1}, reenter |-> TRUE, failing |-> {"buyJob", "transfer"}]

\* Pledges in the ratio 2:3, as in the suite's execution test: fee 100, pledges
\* 40 and 60, 1000 tokens bought.
ScenarioAEnv ==
    [name |-> "scenarioA", principals |-> {"p1"},
     depositors |-> {"p1"}, agentArgs |-> {"a1", "a2"},
     limits |-> {60}, expiries |-> {0}, values |-> {40, 60},
     maxEscrow |-> 60,
     registrants |-> {}, updaters |-> {},
     agents |-> {"a1", "a2"}, stances |-> {TRUE}, pledges |-> {40, 60},
     tokenArgs |-> {"t1"}, fees |-> {100}, reviews |-> 1,
     submitBy |-> MaxTime,
     deliveries |-> {1000}, reenter |-> FALSE, failing |-> {}]

\* Fee distribution among three submitters, none of them pledging, on a fee of
\* 100; the fee payments may fail.  One of the agents registers its identity.
ThreeSubmittersEnv ==
    [name |-> "threeSubmitters", principals |-> {"p1"},
     depositors |-> {"p1"}, agentArgs |-> Agents,
     limits |-> {1}, expiries |-> {0}, values |-> {},
     maxEscrow |-> 0,
     registrants |-> {"a1"}, updaters |-> {},
     agents |-> Agents, stances |-> {FALSE}, pledges |-> {0},
     tokenArgs |-> {"t1"}, fees |-> {100}, reviews |-> 1,
     submitBy |-> 0,
     deliveries |-> {1}, reenter |-> FALSE, failing |-> {"fee"}]

\* Reputation: two agents invest in one review, one of them with a registered
\* identity; the owner and a principal call updateReputation.
ReputationEnv ==
    [name |-> "reputation", principals |-> {"p1"},
     depositors |-> {"p1"}, agentArgs |-> {"a1", "a2"},
     limits |-> {1}, expiries |-> {0}, values |-> {1},
     maxEscrow |-> 1,
     registrants |-> {"a1"}, updaters |-> {Owner, "p1"},
     agents |-> {"a1", "a2"}, stances |-> {TRUE}, pledges |-> {1},
     tokenArgs |-> {"t1"}, fees |-> {MIN_SUBMISSION_FEE}, reviews |-> 1,
     submitBy |-> 0,
     deliveries |-> {1}, reenter |-> FALSE, failing |-> {}]

\* Pooled escrow: two principals grant the same agent different limits, and
\* only the first of them funds the agent's escrow.
PooledEnv ==
    [name |-> "pooled", principals |-> Principals,
     depositors |-> {"p1"}, agentArgs |-> {"a1"},
     limits |-> {1, 2}, expiries |-> {0}, values |-> {2},
     maxEscrow |-> 2,
     registrants |-> {}, updaters |-> {},
     agents |-> {"a1"}, stances |-> {TRUE}, pledges |-> {1, 2},
     tokenArgs |-> {"t1"}, fees |-> {MIN_SUBMISSION_FEE}, reviews |-> 1,
     submitBy |-> 0,
     deliveries |-> {1}, reenter |-> FALSE, failing |-> {}]

Envs ==
    {LedgerEnv, AllocationEnv, ReentrancyEnv, ScenarioAEnv, ThreeSubmittersEnv,
     ReputationEnv, PooledEnv}

Init ==
    /\ env \in Envs
    /\ now = 0
    /\ nextReviewId = 0
    /\ reviews = [r \in ReviewIds |-> NoReview]
    /\ theses = [r \in ReviewIds |-> [a \in Agents |-> NoThesis]]
    /\ reviewAgents = [r \in ReviewIds |-> <<>>]
    /\ agentShares = [r \in ReviewIds |-> [a \in Agents |-> NoShare]]
    /\ delegations = [p \in Principals |-> [a \in AgentArgs |-> NoDelegation]]
    /\ agentIdentities = [a \in Agents |-> NoIdentity]
    /\ agentEscrow = [a \in AgentArgs |-> 0]
    /\ balance = 0
    /\ tokenBal = [t \in ListedTokens |-> 0]
    /\ hist = InitHist
    /\ stack = <<>>

\* ------------------------------------------------------------ pending calls
\* A frame of the stack is an external call the contract is waiting for:
\*   fn, reviewId, sender : the function that made the call, and its arguments
\*   pc     : "buyJob" | "fee" | "transfer", the call
\*   i      : the index into reviewAgents of the recipient (pc = "fee")
\*   totalPledged, balanceBefore : locals of executeReview
\*   bought : executeReview took the purchase path
\*   entry  : the state when the function was entered
\*   snap   : what a failure of the call restores: the state when the function
\*            was entered (buyJob and transfer: their failure reverts the
\*            function), or when the call was made (fee: the failure is ignored)
\*   reentries : (outermost frame) calls back into the contract made so far in
\*               this transaction

\* A call from outside enters the contract: as a transaction of its own, or from
\* the callee of the innermost pending call.
CanEnter ==
    IF stack = <<>> THEN TRUE
    ELSE env.reenter /\ stack[1].reentries < MaxReentries

Entered ==
    IF stack = <<>> THEN stack
    ELSE [stack EXCEPT ![1].reentries = @ + 1]

Top == stack[Len(stack)]

Pop == SubSeq(stack, 1, Len(stack) - 1)

\* --------------------------------------------------------------- delegation

\* registerDelegation without `require(maxAmount > 0)`
registerDelegationResultNoAmountCheck(sender, agentAddress, maxAmount) ==
    IF agentAddress = Null THEN "Invalid agent" ELSE "OK"

registerDelegationResult(sender, agentAddress, maxAmount) ==
    IF agentAddress = Null THEN "Invalid agent"
    ELSE IF ~(maxAmount > 0) THEN "maxAmount must be > 0"
    ELSE "OK"

registerDelegation(sender, agentAddress, maxAmount, expiry) ==
    /\ CanEnter
    /\ registerDelegationResult(sender, agentAddress, maxAmount) = "OK"
    /\ delegations' = [delegations EXCEPT ![sender][agentAddress] =
           [delegator |-> sender, delegate |-> agentAddress,
            maxAmount |-> maxAmount, expiry |-> expiry]]
    /\ stack' = Entered
    /\ UNCHANGED <<env, agentIdentities, now, nextReviewId, reviews, theses, reviewAgents, agentShares,
                   agentEscrow, balance, tokenBal, hist>>

\* depositForAgent accepting a delegation in the block of its expiry
depositForAgentResultAtExpiry(sender, agentAddress, value) ==
    LET d == delegations[sender][agentAddress] IN
    IF d.delegate # agentAddress THEN "No delegation found"
    ELSE IF ~(d.expiry = 0 \/ now <= d.expiry) THEN "Delegation expired"
    ELSE IF ~(value > 0) THEN "No HBAR sent"
    ELSE "OK"

depositForAgentResult(sender, agentAddress, value) ==
    LET d == delegations[sender][agentAddress] IN
    IF d.delegate # agentAddress THEN "No delegation found"
    ELSE IF ~(d.expiry = 0 \/ now < d.expiry) THEN "Delegation expired"
    ELSE IF ~(value > 0) THEN "No HBAR sent"
    ELSE "OK"

\* depositForAgent crediting the escrow with more than the value received
depositForAgentOverCredits(sender, agentAddress, value) ==
    /\ CanEnter
    /\ depositForAgentResult(sender, agentAddress, value) = "OK"
    /\ agentEscrow[agentAddress] + value <= env.maxEscrow
    /\ agentEscrow' = [agentEscrow EXCEPT ![agentAddress] = @ + value + 1]
    /\ balance' = balance + value
    /\ hist' = [hist EXCEPT !.deposited[agentAddress] = @ + value]
    /\ stack' = Entered
    /\ UNCHANGED <<env, agentIdentities, now, nextReviewId, reviews, theses, reviewAgents, agentShares,
                   delegations, tokenBal>>

depositForAgent(sender, agentAddress, value) ==
    /\ CanEnter
    /\ depositForAgentResult(sender, agentAddress, value) = "OK"
    /\ agentEscrow[agentAddress] + value <= env.maxEscrow
    /\ agentEscrow' = [agentEscrow EXCEPT ![agentAddress] = @ + value]
    /\ balance' = balance + value
    /\ hist' = [hist EXCEPT !.deposited[agentAddress] = @ + value]
    /\ stack' = Entered
    /\ UNCHANGED <<env, agentIdentities, now, nextReviewId, reviews, theses, reviewAgents, agentShares,
                   delegations, tokenBal>>

revokeDelegationResult(sender, agentAddress) ==
    IF delegations[sender][agentAddress].delegate # agentAddress
    THEN "No delegation found"
    ELSE "OK"

\* revokeDelegation paying the agent's remaining escrow back to the delegator
revokeDelegationReturnsEscrow(sender, agentAddress) ==
    /\ CanEnter
    /\ revokeDelegationResult(sender, agentAddress) = "OK"
    /\ delegations' = [delegations EXCEPT ![sender][agentAddress] = NoDelegation]
    /\ agentEscrow' = [agentEscrow EXCEPT ![agentAddress] = 0]
    /\ balance' = balance - agentEscrow[agentAddress]
    /\ stack' = Entered
    /\ UNCHANGED <<env, agentIdentities, now, nextReviewId, reviews, theses, reviewAgents, agentShares,
                   tokenBal, hist>>

revokeDelegation(sender, agentAddress) ==
    /\ CanEnter
    /\ revokeDelegationResult(sender, agentAddress) = "OK"
    /\ delegations' = [delegations EXCEPT ![sender][agentAddress] = NoDelegation]
    /\ stack' = Entered
    /\ UNCHANGED <<env, agentIdentities, now, nextReviewId, reviews, theses, reviewAgents, agentShares,
                   agentEscrow, balance, tokenBal, hist>>

\* ---------------------------------------------------------- token submission

\* IMemeJob.addressToMemeTokenMapping(token).tokenAddress
MemeJobTokenAddress(tokenAddress) ==
    IF tokenAddress \in ListedTokens THEN tokenAddress ELSE Null

\* submitToken requiring msg.value > MIN_SUBMISSION_FEE
submitTokenResultFeeAboveMin(tokenAddress, value, rc) ==
    IF ~(value > MIN_SUBMISSION_FEE) THEN "Insufficient submission fee"
    ELSE IF tokenAddress = Null THEN "Invalid token address"
    ELSE IF MemeJobTokenAddress(tokenAddress) = Null THEN "Token not found on MemeJob"
    ELSE IF rc # SUCCESS THEN "scheduleCall failed"
    ELSE "OK"

\* rc is the response code of the Hedera Schedule Service to scheduleCall.
submitTokenResult(tokenAddress, value, rc) ==
    IF ~(value >= MIN_SUBMISSION_FEE) THEN "Insufficient submission fee"
    ELSE IF tokenAddress = Null THEN "Invalid token address"
    ELSE IF MemeJobTokenAddress(tokenAddress) = Null THEN "Token not found on MemeJob"
    ELSE IF rc # SUCCESS THEN "scheduleCall failed"
    ELSE "OK"

\* submitToken incrementing nextReviewId before it uses it: ids start at 1
submitTokenPreIncrement(sender, tokenAddress, value, rc) ==
    /\ CanEnter
    /\ submitTokenResult(tokenAddress, value, rc) = "OK"
    /\ nextReviewId < env.reviews
    /\ now + REVIEW_WINDOW <= MaxTime
    /\ now <= env.submitBy
    /\ nextReviewId' = nextReviewId + 1
    /\ reviews' = [reviews EXCEPT ![nextReviewId + 1] =
           [tokenAddress |-> tokenAddress, creator |-> sender, submissionFee |-> value,
            deadline |-> now + REVIEW_WINDOW, executed |-> FALSE, exists |-> TRUE,
            totalPledged |-> 0, totalPurchased |-> 0, scheduleAddress |-> "0x1"]]
    /\ balance' = balance + value
    /\ stack' = Entered
    /\ UNCHANGED <<env, agentIdentities, now, theses, reviewAgents, agentShares, delegations,
                   agentEscrow, tokenBal, hist>>

submitToken(sender, tokenAddress, value, rc) ==
    /\ CanEnter
    /\ submitTokenResult(tokenAddress, value, rc) = "OK"
    /\ nextReviewId < env.reviews
    /\ now + REVIEW_WINDOW <= MaxTime
    /\ now <= env.submitBy
    /\ nextReviewId' = nextReviewId + 1
    /\ reviews' = [reviews EXCEPT ![nextReviewId] =
           [tokenAddress |-> tokenAddress, creator |-> sender, submissionFee |-> value,
            deadline |-> now + REVIEW_WINDOW, executed |-> FALSE, exists |-> TRUE,
            totalPledged |-> 0, totalPurchased |-> 0, scheduleAddress |-> "0x1"]]
    /\ balance' = balance + value
    /\ stack' = Entered
    /\ UNCHANGED <<env, agentIdentities, now, theses, reviewAgents, agentShares, delegations,
                   agentEscrow, tokenBal, hist>>

\* ------------------------------------------------------------ agent identity

\* registerAgent testing registrationTime instead of agentAddress
registerAgentResultByTime(sender) ==
    IF agentIdentities[sender].registrationTime # 0 THEN "Already registered"
    ELSE "OK"

registerAgentResult(sender) ==
    IF agentIdentities[sender].agentAddress # Null THEN "Already registered"
    ELSE "OK"

\* registerAgent without its require: a second registration overwrites the first
registerAgentOverwrites(sender) ==
    /\ CanEnter
    /\ agentIdentities' = [agentIdentities EXCEPT ![sender] =
           [agentAddress |-> sender, registrationTime |-> now, reputationScore |-> 0,
            totalTrades |-> 0, profitableTrades |-> 0]]
    /\ stack' = Entered
    /\ UNCHANGED <<env, now, nextReviewId, reviews, theses, reviewAgents, agentShares,
                   delegations, agentEscrow, balance, tokenBal, hist>>

registerAgent(sender) ==
    /\ CanEnter
    /\ registerAgentResult(sender) = "OK"
    /\ agentIdentities' = [agentIdentities EXCEPT ![sender] =
           [agentAddress |-> sender, registrationTime |-> now, reputationScore |-> 0,
            totalTrades |-> 0, profitableTrades |-> 0]]
    /\ stack' = Entered
    /\ UNCHANGED <<env, now, nextReviewId, reviews, theses, reviewAgents, agentShares,
                   delegations, agentEscrow, balance, tokenBal, hist>>

\* --------------------------------------------------------- thesis submission

\* modifier reviewExists
reviewExists(reviewId) == reviewId \in ReviewIds /\ reviews[reviewId].exists

\* reviewOpen without `require(block.timestamp < reviews[reviewId].deadline)`
reviewOpenNoDeadline(reviewId) ==
    IF reviews[reviewId].executed THEN "Already executed" ELSE "OK"

\* reviewOpen without its requires
reviewOpenAlways(reviewId) == "OK"

\* modifier reviewOpen: "OK" or the message of the require that fails
reviewOpen(reviewId) ==
    IF reviews[reviewId].executed THEN "Already executed"
    ELSE IF ~(now < reviews[reviewId].deadline) THEN "Review window closed"
    ELSE "OK"

\* submitThesis without `require(theses[reviewId][msg.sender].agent == address(0))`
submitThesisResultNoDuplicateCheck(reviewId, sender, bullish, pledgedAmount, delegator) ==
    LET d == delegations[delegator][sender] IN
    IF ~reviewExists(reviewId) THEN "Review does not exist"
    ELSE IF reviewOpen(reviewId) # "OK" THEN reviewOpen(reviewId)
    ELSE IF d.delegate # sender THEN "No valid delegation"
    ELSE IF ~(d.expiry = 0 \/ now < d.expiry) THEN "Delegation expired"
    ELSE IF ~bullish THEN "OK"
    ELSE IF ~(pledgedAmount > 0) THEN "Must pledge > 0 if bullish"
    ELSE IF ~(pledgedAmount <= d.maxAmount) THEN "Exceeds delegation limit"
    ELSE IF ~(agentEscrow[sender] >= pledgedAmount) THEN "Insufficient escrow"
    ELSE "OK"

\* submitThesis without `require(agentEscrow[msg.sender] >= pledgedAmount)`
submitThesisResultNoEscrowCheck(reviewId, sender, bullish, pledgedAmount, delegator) ==
    LET d == delegations[delegator][sender] IN
    IF ~reviewExists(reviewId) THEN "Review does not exist"
    ELSE IF reviewOpen(reviewId) # "OK" THEN reviewOpen(reviewId)
    ELSE IF d.delegate # sender THEN "No valid delegation"
    ELSE IF ~(d.expiry = 0 \/ now < d.expiry) THEN "Delegation expired"
    ELSE IF theses[reviewId][sender].agent # Null THEN "Thesis already submitted"
    ELSE IF ~bullish THEN "OK"
    ELSE IF ~(pledgedAmount > 0) THEN "Must pledge > 0 if bullish"
    ELSE IF ~(pledgedAmount <= d.maxAmount) THEN "Exceeds delegation limit"
    ELSE "OK"

\* submitThesis finding the earlier thesis by its pledge: a bearish one is missed
submitThesisResultDuplicateByShare(reviewId, sender, bullish, pledgedAmount, delegator) ==
    LET d == delegations[delegator][sender] IN
    IF ~reviewExists(reviewId) THEN "Review does not exist"
    ELSE IF reviewOpen(reviewId) # "OK" THEN reviewOpen(reviewId)
    ELSE IF d.delegate # sender THEN "No valid delegation"
    ELSE IF ~(d.expiry = 0 \/ now < d.expiry) THEN "Delegation expired"
    ELSE IF agentShares[reviewId][sender].pledgedAmount # 0 THEN "Thesis already submitted"
    ELSE IF ~bullish THEN "OK"
    ELSE IF ~(pledgedAmount > 0) THEN "Must pledge > 0 if bullish"
    ELSE IF ~(pledgedAmount <= d.maxAmount) THEN "Exceeds delegation limit"
    ELSE IF ~(agentEscrow[sender] >= pledgedAmount) THEN "Insufficient escrow"
    ELSE "OK"

\* submitThesis validating the delegation of a bullish thesis only
submitThesisResultDelegationIfBullish(reviewId, sender, bullish, pledgedAmount, delegator) ==
    LET d == delegations[delegator][sender] IN
    IF ~reviewExists(reviewId) THEN "Review does not exist"
    ELSE IF reviewOpen(reviewId) # "OK" THEN reviewOpen(reviewId)
    ELSE IF theses[reviewId][sender].agent # Null THEN "Thesis already submitted"
    ELSE IF ~bullish THEN "OK"
    ELSE IF d.delegate # sender THEN "No valid delegation"
    ELSE IF ~(d.expiry = 0 \/ now < d.expiry) THEN "Delegation expired"
    ELSE IF ~(pledgedAmount > 0) THEN "Must pledge > 0 if bullish"
    ELSE IF ~(pledgedAmount <= d.maxAmount) THEN "Exceeds delegation limit"
    ELSE IF ~(agentEscrow[sender] >= pledgedAmount) THEN "Insufficient escrow"
    ELSE "OK"

\* submitThesis without `require(pledgedAmount <= d.maxAmount)`
submitThesisResultNoLimitCheck(reviewId, sender, bullish, pledgedAmount, delegator) ==
    LET d == delegations[delegator][sender] IN
    IF ~reviewExists(reviewId) THEN "Review does not exist"
    ELSE IF reviewOpen(reviewId) # "OK" THEN reviewOpen(reviewId)
    ELSE IF d.delegate # sender THEN "No valid delegation"
    ELSE IF ~(d.expiry = 0 \/ now < d.expiry) THEN "Delegation expired"
    ELSE IF theses[reviewId][sender].agent # Null THEN "Thesis already submitted"
    ELSE IF ~bullish THEN "OK"
    ELSE IF ~(pledgedAmount > 0) THEN "Must pledge > 0 if bullish"
    ELSE IF ~(agentEscrow[sender] >= pledgedAmount) THEN "Insufficient escrow"
    ELSE "OK"

\* submitThesis looking for an earlier thesis before it validates the delegation
submitThesisResultDuplicateFirst(reviewId, sender, bullish, pledgedAmount, delegator) ==
    LET d == delegations[delegator][sender] IN
    IF ~reviewExists(reviewId) THEN "Review does not exist"
    ELSE IF reviewOpen(reviewId) # "OK" THEN reviewOpen(reviewId)
    ELSE IF theses[reviewId][sender].agent # Null THEN "Thesis already submitted"
    ELSE IF d.delegate # sender THEN "No valid delegation"
    ELSE IF ~(d.expiry = 0 \/ now < d.expiry) THEN "Delegation expired"
    ELSE IF ~bullish THEN "OK"
    ELSE IF ~(pledgedAmount > 0) THEN "Must pledge > 0 if bullish"
    ELSE IF ~(pledgedAmount <= d.maxAmount) THEN "Exceeds delegation limit"
    ELSE IF ~(agentEscrow[sender] >= pledgedAmount) THEN "Insufficient escrow"
    ELSE "OK"

submitThesisResult(reviewId, sender, bullish, pledgedAmount, delegator) ==
    LET d == delegations[delegator][sender] IN
    IF ~reviewExists(reviewId) THEN "Review does not exist"
    ELSE IF reviewOpen(reviewId) # "OK" THEN reviewOpen(reviewId)
    ELSE IF d.delegate # sender THEN "No valid delegation"
    ELSE IF ~(d.expiry = 0 \/ now < d.expiry) THEN "Delegation expired"
    ELSE IF theses[reviewId][sender].agent # Null THEN "Thesis already submitted"
    ELSE IF ~bullish THEN "OK"
    ELSE IF ~(pledgedAmount > 0) THEN "Must pledge > 0 if bullish"
    ELSE IF ~(pledgedAmount <= d.maxAmount) THEN "Exceeds delegation limit"
    ELSE IF ~(agentEscrow[sender] >= pledgedAmount) THEN "Insufficient escrow"
    ELSE "OK"

\* The pledge is recorded and the escrow is not debited.
debitNothing(agent, amount) == agentEscrow

\* `agentEscrow[msg.sender] -= pledgedAmount`
debit(agent, amount) == [agentEscrow EXCEPT ![agent] = @ - amount]

\* submitThesis recording the amount passed with a bearish thesis
submitThesisKeepsBearishAmount(reviewId, sender, bullish, pledgedAmount, delegator) ==
    /\ CanEnter
    /\ submitThesisResult(reviewId, sender, bullish, pledgedAmount, delegator) = "OK"
    /\ IF bullish
       THEN /\ agentEscrow' = debit(sender, pledgedAmount)
            /\ reviews' = [reviews EXCEPT ![reviewId].totalPledged = @ + pledgedAmount]
            /\ agentShares' = [agentShares EXCEPT ![reviewId][sender] =
                   [pledgedAmount |-> pledgedAmount, tokenShare |-> 0,
                    claimed |-> FALSE]]
       ELSE UNCHANGED <<agentEscrow, reviews, agentShares>>
    /\ theses' = [theses EXCEPT ![reviewId][sender] =
           [agent |-> sender, bullish |-> bullish,
            pledgedAmount |-> pledgedAmount,
            submittedAt |-> now]]
    /\ reviewAgents' = [reviewAgents EXCEPT ![reviewId] = Append(@, sender)]
    /\ stack' = Entered
    /\ UNCHANGED <<env, agentIdentities, now, nextReviewId, delegations, balance, tokenBal, hist>>

submitThesis(reviewId, sender, bullish, pledgedAmount, delegator) ==
    /\ CanEnter
    /\ submitThesisResult(reviewId, sender, bullish, pledgedAmount, delegator) = "OK"
    /\ IF bullish
       THEN /\ agentEscrow' = debit(sender, pledgedAmount)
            /\ reviews' = [reviews EXCEPT ![reviewId].totalPledged = @ + pledgedAmount]
            /\ agentShares' = [agentShares EXCEPT ![reviewId][sender] =
                   [pledgedAmount |-> pledgedAmount, tokenShare |-> 0,
                    claimed |-> FALSE]]
       ELSE UNCHANGED <<agentEscrow, reviews, agentShares>>
    /\ theses' = [theses EXCEPT ![reviewId][sender] =
           [agent |-> sender, bullish |-> bullish,
            pledgedAmount |-> IF bullish THEN pledgedAmount ELSE 0,
            submittedAt |-> now]]
    /\ reviewAgents' = [reviewAgents EXCEPT ![reviewId] = Append(@, sender)]
    /\ stack' = Entered
    /\ UNCHANGED <<env, agentIdentities, now, nextReviewId, delegations, balance, tokenBal, hist>>

\* ----------------------------------------------------------------- execution

\* The payout without the remainder for the last agent
PayoutNoRemainder(s, reviewId, i) ==
    s.reviews[reviewId].submissionFee \div Len(s.reviewAgents[reviewId])

\* The payout with the remainder going to the first agent
PayoutRemainderToFirst(s, reviewId, i) ==
    LET agentCount == Len(s.reviewAgents[reviewId])
        fee == s.reviews[reviewId].submissionFee
        perAgent == fee \div agentCount
        remainder == fee - (perAgent * agentCount)
    IN IF i = 1 THEN perAgent + remainder ELSE perAgent

\* _distributeSubmissionFee: the payout of the i-th agent (1-based) of the review
Payout(s, reviewId, i) ==
    LET agentCount == Len(s.reviewAgents[reviewId])
        fee == s.reviews[reviewId].submissionFee
        perAgent == fee \div agentCount
        remainder == fee - (perAgent * agentCount)
    IN IF i = agentCount THEN perAgent + remainder ELSE perAgent

\* _distributeSubmissionFee: the loop from index i on, up to its next external
\* call that transfers control.  A payout of 0 makes no call; a call with more
\* value than the contract holds fails at once and is skipped like any failure.
\* The index of that call, or 0 when the loop ends without one.
RECURSIVE NextFeeCall(_, _, _)
NextFeeCall(s, reviewId, i) ==
    IF i > Len(s.reviewAgents[reviewId]) THEN 0
    ELSE IF Payout(s, reviewId, i) > 0 /\ s.balance >= Payout(s, reviewId, i) THEN i
    ELSE NextFeeCall(s, reviewId, i + 1)

\* executeReview announcing ReviewExecuted at every return
DistributeFromAlwaysAnnounces(s, below, f, i) ==
    LET reviewId == f.reviewId
        j == NextFeeCall(s, reviewId, i)
    IN IF j = 0
       THEN /\ Restore([s EXCEPT
                   !.hist.executions[reviewId] = @ + 1,
                   !.hist.announced[reviewId] = @ + 1])
            /\ stack' = below
       ELSE /\ Restore([s EXCEPT
                   !.balance = @ - Payout(s, reviewId, j),
                   !.hist.paid[reviewId][s.reviewAgents[reviewId][j]] =
                       @ + Payout(s, reviewId, j)])
            /\ stack' = Append(below, [f EXCEPT !.pc = "fee", !.i = j, !.snap = s])

\* executeReview from _distributeSubmissionFee's loop index i on, in state s with
\* the pending calls below: either the next fee payment is made and is pending,
\* or the function returns.
DistributeFrom(s, below, f, i) ==
    LET reviewId == f.reviewId
        j == NextFeeCall(s, reviewId, i)
    IN IF j = 0
       THEN /\ Restore([s EXCEPT
                   !.hist.executions[reviewId] = @ + 1,
                   !.hist.announced[reviewId] = IF f.bought THEN @ + 1 ELSE @])
            /\ stack' = below
       ELSE /\ Restore([s EXCEPT
                   !.balance = @ - Payout(s, reviewId, j),
                   !.hist.paid[reviewId][s.reviewAgents[reviewId][j]] =
                       @ + Payout(s, reviewId, j)])
            /\ stack' = Append(below, [f EXCEPT !.pc = "fee", !.i = j, !.snap = s])

\* executeReview without `require(!review.executed)`
executeReviewResultNoExecutedCheck(reviewId) ==
    IF ~reviewExists(reviewId) THEN "Review does not exist"
    ELSE IF ~(now >= reviews[reviewId].deadline) THEN "Window not closed yet"
    ELSE "OK"

\* executeReview requiring block.timestamp > deadline
executeReviewResultAfterDeadline(reviewId) ==
    IF ~reviewExists(reviewId) THEN "Review does not exist"
    ELSE IF reviews[reviewId].executed THEN "Already executed"
    ELSE IF ~(now > reviews[reviewId].deadline) THEN "Window not closed yet"
    ELSE "OK"

executeReviewResult(reviewId) ==
    IF ~reviewExists(reviewId) THEN "Review does not exist"
    ELSE IF reviews[reviewId].executed THEN "Already executed"
    ELSE IF ~(now >= reviews[reviewId].deadline) THEN "Window not closed yet"
    ELSE "OK"

\* executeReview that does not set the flag before its external calls
MarkExecutedNot(s, reviewId) == s

\* The state after `review.executed = true`
MarkExecuted(s, reviewId) == [s EXCEPT !.reviews[reviewId].executed = TRUE]

NewFrame(fn, reviewId, sender) ==
    [fn |-> fn, reviewId |-> reviewId, sender |-> sender, pc |-> "", i |-> 0,
     totalPledged |-> 0, balanceBefore |-> 0, bought |-> FALSE, entry |-> Save,
     snap |-> Save, reentries |-> 0]

\* executeReview without the `if (totalPledged == 0)` branch
executeReviewAlwaysBuys(reviewId) ==
    /\ CanEnter
    /\ executeReviewResult(reviewId) = "OK"
    /\ LET review == reviews[reviewId]
           totalPledged == review.totalPledged
           s1 == MarkExecuted(Save, reviewId)
           f == [NewFrame("executeReview", reviewId, Null) EXCEPT
                    !.totalPledged = totalPledged]
       IN /\ balance >= totalPledged
          /\ Restore([s1 EXCEPT
                 !.balance = @ - totalPledged,
                 !.hist.purchases[reviewId] = @ + 1,
                 !.hist.spent[reviewId] = @ + totalPledged])
          /\ stack' = Append(Entered,
                 [f EXCEPT !.pc = "buyJob", !.bought = TRUE,
                           !.balanceBefore = tokenBal[review.tokenAddress]])
    /\ UNCHANGED <<env, now>>

\* executeReview sending the contract's whole balance to buyJob
executeReviewBuysWithBalance(reviewId) ==
    /\ CanEnter
    /\ executeReviewResult(reviewId) = "OK"
    /\ LET review == reviews[reviewId]
           totalPledged == review.totalPledged
           s1 == MarkExecuted(Save, reviewId)
           f == [NewFrame("executeReview", reviewId, Null) EXCEPT
                    !.totalPledged = totalPledged]
       IN IF totalPledged = 0
          THEN DistributeFrom([s1 EXCEPT !.hist.feeRuns[reviewId] = @ + 1],
                              Entered, f, 1)
          ELSE /\ Restore([s1 EXCEPT
                      !.balance = 0,
                      !.hist.purchases[reviewId] = @ + 1,
                      !.hist.spent[reviewId] = @ + balance])
               /\ stack' = Append(Entered,
                      [f EXCEPT !.pc = "buyJob", !.bought = TRUE,
                                !.balanceBefore = tokenBal[review.tokenAddress]])
    /\ UNCHANGED <<env, now>>

executeReview(reviewId) ==
    /\ CanEnter
    /\ executeReviewResult(reviewId) = "OK"
    /\ LET review == reviews[reviewId]
           totalPledged == review.totalPledged
           s1 == MarkExecuted(Save, reviewId)
           f == [NewFrame("executeReview", reviewId, Null) EXCEPT
                    !.totalPledged = totalPledged]
       IN IF totalPledged = 0
          THEN DistributeFrom([s1 EXCEPT !.hist.feeRuns[reviewId] = @ + 1],
                              Entered, f, 1)
          ELSE \* buyJob{value: totalPledged}: without the funds the call reverts
               /\ balance >= totalPledged
               /\ Restore([s1 EXCEPT
                      !.balance = @ - totalPledged,
                      !.hist.purchases[reviewId] = @ + 1,
                      !.hist.spent[reviewId] = @ + totalPledged])
               /\ stack' = Append(Entered,
                      [f EXCEPT !.pc = "buyJob", !.bought = TRUE,
                                !.balanceBefore = tokenBal[review.tokenAddress]])
    /\ UNCHANGED <<env, now>>

\* The allocation dividing before it multiplies
AllocateDivideFirst(shares, agents, tokensReceived, totalPledged) ==
    [a \in DOMAIN shares |->
        IF /\ \E k \in 1 .. Len(agents) : agents[k] = a
           /\ shares[a].pledgedAmount > 0
           /\ tokensReceived > 0
        THEN [shares[a] EXCEPT
                 !.tokenShare = (shares[a].pledgedAmount \div totalPledged) * tokensReceived]
        ELSE shares[a]]

\* The allocation rounding up
AllocateRoundUp(shares, agents, tokensReceived, totalPledged) ==
    [a \in DOMAIN shares |->
        IF /\ \E k \in 1 .. Len(agents) : agents[k] = a
           /\ shares[a].pledgedAmount > 0
           /\ tokensReceived > 0
        THEN [shares[a] EXCEPT
                 !.tokenShare = (shares[a].pledgedAmount * tokensReceived
                                 + totalPledged - 1) \div totalPledged]
        ELSE shares[a]]

\* The allocation giving the rounding remainder to the last agent, as the fee
\* distribution does
AllocateRemainderToLast(shares, agents, tokensReceived, totalPledged) ==
    LET floor(a) == (shares[a].pledgedAmount * tokensReceived) \div totalPledged
        last == agents[Len(agents)]
        others == {agents[k] : k \in 1 .. Len(agents)} \ {last}
        given[S \in SUBSET others] ==
            IF S = {} THEN 0
            ELSE LET x == CHOOSE x \in S : TRUE IN floor(x) + given[S \ {x}]
    IN [a \in DOMAIN shares |->
        IF /\ \E k \in 1 .. Len(agents) : agents[k] = a
           /\ shares[a].pledgedAmount > 0
           /\ tokensReceived > 0
        THEN [shares[a] EXCEPT
                 !.tokenShare = IF a = last THEN tokensReceived - given[others]
                                ELSE floor(a)]
        ELSE shares[a]]

\* The proportional allocation loop of executeReview
Allocate(shares, agents, tokensReceived, totalPledged) ==
    [a \in DOMAIN shares |->
        IF /\ \E k \in 1 .. Len(agents) : agents[k] = a
           /\ shares[a].pledgedAmount > 0
           /\ tokensReceived > 0
        THEN [shares[a] EXCEPT
                 !.tokenShare = (shares[a].pledgedAmount * tokensReceived) \div totalPledged]
        ELSE shares[a]]

\* buyJob returns, the venue having delivered `delivered` tokens to the contract.
buyJobReturns(delivered) ==
    /\ stack # <<>>
    /\ Top.pc = "buyJob"
    /\ LET f == Top
           reviewId == f.reviewId
           token == reviews[reviewId].tokenAddress
           balanceAfter == tokenBal[token] + delivered
           tokensReceived == balanceAfter - f.balanceBefore
       IN IF tokensReceived < 0
          THEN \* checked arithmetic: the subtraction reverts executeReview
               /\ Restore(f.snap)
               /\ stack' = Pop
          ELSE DistributeFrom(
                   [Save EXCEPT
                       !.tokenBal[token] = balanceAfter,
                       !.hist.delivered[reviewId] = @ + delivered,
                       !.reviews[reviewId].totalPurchased = tokensReceived,
                       !.agentShares[reviewId] =
                           Allocate(@, reviewAgents[reviewId], tokensReceived,
                                    f.totalPledged),
                       !.hist.feeRuns[reviewId] = @ + 1],
                   Pop, f, 1)
    /\ UNCHANGED <<env, now>>

\* buyJob reverts, and executeReview with it.
buyJobReverts ==
    /\ stack # <<>>
    /\ Top.pc = "buyJob"
    /\ "buyJob" \in env.failing
    /\ Restore(Top.snap)
    /\ stack' = Pop
    /\ UNCHANGED <<env, now>>

\* The fee payment `payable(agent).call{value: payout}("")` returns sent = true.
feeCallReturns ==
    /\ stack # <<>>
    /\ Top.pc = "fee"
    /\ DistributeFrom(Save, Pop, Top, Top.i + 1)
    /\ UNCHANGED <<env, now>>

\* A failed fee payment ending the distribution
feeCallFailsStops ==
    /\ stack # <<>>
    /\ Top.pc = "fee"
    /\ "fee" \in env.failing
    /\ LET agent == Top.snap.reviewAgents[Top.reviewId][Top.i] IN
       DistributeFrom([Top.snap EXCEPT !.hist.unpaid[Top.reviewId][agent] = @ + 1],
                      Pop, Top, Len(Top.snap.reviewAgents[Top.reviewId]) + 1)
    /\ UNCHANGED <<env, now>>

\* The fee payment returns sent = false: whatever the recipient did is undone,
\* the value stays with the contract, and the loop goes on.
feeCallFails ==
    /\ stack # <<>>
    /\ Top.pc = "fee"
    /\ "fee" \in env.failing
    /\ LET agent == Top.snap.reviewAgents[Top.reviewId][Top.i] IN
       DistributeFrom([Top.snap EXCEPT !.hist.unpaid[Top.reviewId][agent] = @ + 1],
                      Pop, Top, Top.i + 1)
    /\ UNCHANGED <<env, now>>

\* --------------------------------------------------------------------- claim

\* claimTokens without `require(!share.claimed)`
claimTokensResultNoClaimedCheck(reviewId, sender) ==
    IF ~reviewExists(reviewId) THEN "Review does not exist"
    ELSE IF ~reviews[reviewId].executed THEN "Not yet executed"
    ELSE IF ~(agentShares[reviewId][sender].tokenShare > 0) THEN "No tokens to claim"
    ELSE "OK"

claimTokensResult(reviewId, sender) ==
    IF ~reviewExists(reviewId) THEN "Review does not exist"
    ELSE IF ~reviews[reviewId].executed THEN "Not yet executed"
    ELSE IF ~(agentShares[reviewId][sender].tokenShare > 0) THEN "No tokens to claim"
    ELSE IF agentShares[reviewId][sender].claimed THEN "Already claimed"
    ELSE "OK"

\* claimTokens that does not set the flag before the transfer
MarkClaimedNot(reviewId, sender) == agentShares

\* `share.claimed = true`
MarkClaimed(reviewId, sender) ==
    [agentShares EXCEPT ![reviewId][sender].claimed = TRUE]

\* claimTokens up to its call of token.transfer.  The token moves the amount
\* when it is called (with too few tokens held it reverts, and the claim with
\* it) and may then hand control to the recipient.
claimTokens(reviewId, sender) ==
    /\ CanEnter
    /\ claimTokensResult(reviewId, sender) = "OK"
    /\ LET share == agentShares[reviewId][sender]
           token == reviews[reviewId].tokenAddress
       IN /\ tokenBal[token] >= share.tokenShare
          /\ agentShares' = MarkClaimed(reviewId, sender)
          /\ tokenBal' = [tokenBal EXCEPT ![token] = @ - share.tokenShare]
          /\ hist' = [hist EXCEPT !.received[reviewId][sender] = @ + share.tokenShare]
    /\ stack' = Append(Entered,
           [NewFrame("claimTokens", reviewId, sender) EXCEPT !.pc = "transfer"])
    /\ UNCHANGED <<env, agentIdentities, now, nextReviewId, reviews, theses, reviewAgents, delegations,
                   agentEscrow, balance>>

\* token.transfer returns true.
transferReturns ==
    /\ stack # <<>>
    /\ Top.pc = "transfer"
    /\ hist' = [hist EXCEPT !.claims[Top.reviewId][Top.sender] = @ + 1]
    /\ stack' = Pop
    /\ UNCHANGED <<env, agentIdentities, now, nextReviewId, reviews, theses, reviewAgents, agentShares,
                   delegations, agentEscrow, balance, tokenBal>>

\* a failed token.transfer whose result claimTokens ignores: the call returns
\* with `claimed` set and the tokens still counted as sent
transferFailsIgnored ==
    /\ stack # <<>>
    /\ Top.pc = "transfer"
    /\ "transfer" \in env.failing
    /\ stack' = Pop
    /\ UNCHANGED <<env, agentIdentities, now, nextReviewId, reviews, theses, reviewAgents,
                   agentShares, delegations, agentEscrow, balance, tokenBal, hist>>

\* token.transfer returns false or reverts: claimTokens reverts.
transferFails ==
    /\ stack # <<>>
    /\ Top.pc = "transfer"
    /\ "transfer" \in env.failing
    /\ Restore(Top.snap)
    /\ stack' = Pop
    /\ UNCHANGED <<env, now>>

\* ---------------------------------------------------------------- reputation

\* updateReputation without the onlyOwner modifier
updateReputationResultAnyCaller(sender, reviewId, agent) ==
    IF ~reviewExists(reviewId) THEN "Review does not exist"
    ELSE IF ~reviews[reviewId].executed THEN "Review not yet executed"
    ELSE IF ~(agent \in Agents /\ agentShares[reviewId][agent].pledgedAmount > 0)
         THEN "Agent did not invest"
    ELSE IF agentIdentities[agent].agentAddress = Null
         THEN "Agent not registered (ERC-8004)"
    ELSE "OK"

\* reviewId ranges over ReviewIds; agent over AgentArgs.
updateReputationResult(sender, reviewId, agent) ==
    IF sender # Owner THEN "Not owner"
    ELSE IF ~reviewExists(reviewId) THEN "Review does not exist"
    ELSE IF ~reviews[reviewId].executed THEN "Review not yet executed"
    ELSE IF ~(agent \in Agents /\ agentShares[reviewId][agent].pledgedAmount > 0)
         THEN "Agent did not invest"
    ELSE IF agentIdentities[agent].agentAddress = Null
         THEN "Agent not registered (ERC-8004)"
    ELSE "OK"

\* updateReputation that leaves the score alone on an unprofitable trade
updateReputationLossKeepsScore(sender, reviewId, agent, profitable) ==
    /\ CanEnter
    /\ updateReputationResult(sender, reviewId, agent) = "OK"
    /\ agentIdentities[agent].totalTrades < MaxTrades
    /\ agentIdentities' = [agentIdentities EXCEPT ![agent] =
           [@ EXCEPT
               !.totalTrades = @ + 1,
               !.reputationScore = IF profitable THEN @ + REPUTATION_WIN_DELTA ELSE @,
               !.profitableTrades = IF profitable THEN @ + 1 ELSE @]]
    /\ stack' = Entered
    /\ UNCHANGED <<env, now, nextReviewId, reviews, theses, reviewAgents, agentShares,
                   delegations, agentEscrow, balance, tokenBal, hist>>

updateReputation(sender, reviewId, agent, profitable) ==
    /\ CanEnter
    /\ updateReputationResult(sender, reviewId, agent) = "OK"
    /\ agentIdentities[agent].totalTrades < MaxTrades
    /\ agentIdentities' = [agentIdentities EXCEPT ![agent] =
           [@ EXCEPT
               !.totalTrades = @ + 1,
               !.reputationScore =
                   IF profitable THEN @ + REPUTATION_WIN_DELTA
                   ELSE @ - REPUTATION_LOSS_DELTA,
               !.profitableTrades = IF profitable THEN @ + 1 ELSE @]]
    /\ stack' = Entered
    /\ UNCHANGED <<env, now, nextReviewId, reviews, theses, reviewAgents, agentShares,
                   delegations, agentEscrow, balance, tokenBal, hist>>

\* ------------------------------------------------------------------- time

\* Time passes between transactions, never inside one.
Tick ==
    /\ stack = <<>>
    /\ now < MaxTime
    /\ now' = now + 1
    /\ UNCHANGED <<env, agentIdentities, nextReviewId, reviews, theses, reviewAgents, agentShares,
                   delegations, agentEscrow, balance, tokenBal, hist, stack>>

\* ------------------------------------------------------------ specification

DoRegisterDelegation ==
    \E p \in env.principals, a \in env.agentArgs, m \in env.limits, e \in env.expiries :
        registerDelegation(p, a, m, e)

DoDepositForAgent ==
    \E p \in env.depositors, a \in env.agentArgs, v \in env.values :
        depositForAgent(p, a, v)

DoRevokeDelegation ==
    \E p \in env.principals, a \in env.agentArgs : revokeDelegation(p, a)

DoRegisterAgent == \E a \in env.registrants : registerAgent(a)

DoUpdateReputation ==
    \E s \in env.updaters, r \in ReviewIds, a \in env.agentArgs, b \in BOOLEAN :
        updateReputation(s, r, a, b)

DoSubmitToken ==
    \E t \in env.tokenArgs, v \in env.fees,
       rc \in (IF "scheduleCall" \in env.failing THEN {SUCCESS, UNKNOWN}
               ELSE {SUCCESS}) :
        submitToken(Creator, t, v, rc)

DoSubmitThesis ==
    \E r \in ReviewIds, a \in env.agents, b \in env.stances, m \in env.pledges,
       p \in env.principals :
        submitThesis(r, a, b, m, p)

\* executeReview called by anyone
DoExecuteReview == \E r \in ReviewIds : executeReview(r)

\* executeReview called by the transaction scheduled in submitToken
ScheduledExecuteReview ==
    \E r \in ReviewIds :
        /\ stack = <<>>
        /\ reviews[r].scheduleAddress # Null
        /\ now >= reviews[r].deadline
        /\ executeReview(r)

DoBuyJobReturns == \E k \in env.deliveries : buyJobReturns(k)

DoClaimTokens == \E r \in ReviewIds, a \in env.agents : claimTokens(r, a)

Next ==
    \/ DoRegisterDelegation
    \/ DoDepositForAgent
    \/ DoRevokeDelegation
    \/ DoRegisterAgent
    \/ DoUpdateReputation
    \/ DoSubmitToken
    \/ DoSubmitThesis
    \/ DoExecuteReview
    \/ ScheduledExecuteReview
    \/ DoBuyJobReturns
    \/ buyJobReverts
    \/ feeCallReturns
    \/ feeCallFails
    \/ DoClaimTokens
    \/ transferReturns
    \/ transferFails
    \/ Tick

Spec == Init /\ [][Next]_vars

\* Time passes, every pending external call ends (it returns or it fails), and
\* some caller keeps calling executeReview for every review: whenever the call
\* can be made again and again, it is made.
Fairness ==
    /\ WF_vars(Tick)
    /\ WF_vars(DoBuyJobReturns \/ buyJobReverts)
    /\ WF_vars(feeCallReturns \/ feeCallFails)
    /\ WF_vars(transferReturns \/ transferFails)
    /\ \A r \in ReviewIds : SF_vars(executeReview(r))

FairSpec == Spec /\ Fairness

\* ===================================================================== claims

RECURSIVE SumOver(_, _)
SumOver(f, S) ==
    IF S = {} THEN 0
    ELSE LET x == CHOOSE x \in S : TRUE IN f[x] + SumOver(f, S \ {x})

\* The state as of the last transaction boundary: what the chain holds while a
\* transaction is still running and if it reverts.
Committed == IF stack = <<>> THEN Save ELSE stack[1].entry

Pending(fn) == {k \in 1 .. Len(stack) : stack[k].fn = fn}

Participants(r) == {reviewAgents[r][k] : k \in 1 .. Len(reviewAgents[r])}

PledgedOn(r) == SumOver([a \in Agents |-> agentShares[r][a].pledgedAmount], Agents)

PledgedBy(a) ==
    IF a \in Agents
    THEN SumOver([r \in ReviewIds |-> agentShares[r][a].pledgedAmount], ReviewIds)
    ELSE 0

SharesOf(r) == SumOver([a \in Agents |-> agentShares[r][a].tokenShare], Agents)

ReceivedFrom(r) == SumOver([a \in Agents |-> hist.received[r][a]], Agents)

Allocated(r) == reviews[r].totalPledged > 0 /\ reviews[r].totalPurchased > 0

\* ------------------------------------------------------------------------ C1

C1_Once ==
    \A r \in ReviewIds :
        /\ hist.executions[r] <= 1
        /\ hist.executions[r] = 1 =>
               /\ reviews[r].executed
               /\ executeReviewResult(r) = "Already executed"

C1_Stays ==
    \A r \in ReviewIds :
        Committed.hist.executions[r] = 1 =>
            /\ Committed'.hist.executions[r] = 1
            /\ Committed'.reviews[r].executed

\* C1: executeReview(r) returns without revert at most once for every review r,
\* whoever calls it (anyone, or the scheduled transaction) and in whatever
\* order; once it has, every executeReview(r) is rejected with "Already
\* executed" (a rejected call is a revert: it changes nothing), and from one
\* transaction boundary to the next the review stays executed.
C1_ExecuteAtMostOnce == [](C1_Once) /\ [][C1_Stays]_vars

\* An executed review after its deadline, where a further call is rejected.
C1_Witness ==
    \E r \in ReviewIds :
        /\ stack = <<>>
        /\ hist.executions[r] = 1
        /\ reviews[r].totalPledged > 0
        /\ now > reviews[r].deadline
        /\ executeReviewResult(r) = "Already executed"

\* ------------------------------------------------------------------------ C2

\* C2: while executeReview(r) waits for an external call (buyJob or a fee
\* payment), review r is already marked executed, so executeReview(r) entered
\* again from inside that call is rejected with "Already executed"; buyJob is
\* called and the fee is distributed at most once per review, and exactly once
\* (buyJob: when something was pledged) for a review whose execution returned.
C2_ExecutedBeforeInteraction ==
    /\ \A k \in Pending("executeReview") :
           /\ reviews[stack[k].reviewId].executed
           /\ executeReviewResult(stack[k].reviewId) = "Already executed"
    /\ \A r \in ReviewIds :
           /\ hist.purchases[r] <= 1
           /\ hist.feeRuns[r] <= 1
           /\ hist.executions[r] = 1 =>
                  /\ hist.feeRuns[r] = 1
                  /\ hist.purchases[r] = IF reviews[r].totalPledged > 0 THEN 1 ELSE 0

\* The callee of a pending fee payment, after a pending buyJob of the same
\* execution, is free to call back, and executeReview of that review is rejected.
C2_Witness ==
    /\ env.reenter
    /\ stack # <<>>
    /\ Top.fn = "executeReview"
    /\ Top.pc = "fee"
    /\ Top.bought
    /\ CanEnter
    /\ executeReviewResult(Top.reviewId) = "Already executed"

\* ------------------------------------------------------------------------ C3

\* C3: for every review r and agent a, claimTokens(r) by a returns without
\* revert at most once; once it has, a has received exactly its tokenShare of
\* r's token from the contract and every further claimTokens(r) by a is
\* rejected with "Already claimed"; the contract's holding of a token is what
\* the venue delivered less what the claims transferred.
C3_ClaimAtMostOnce ==
    /\ \A r \in ReviewIds, a \in Agents :
           /\ hist.claims[r][a] <= 1
           /\ hist.claims[r][a] = 1 =>
                  /\ agentShares[r][a].claimed
                  /\ hist.received[r][a] = agentShares[r][a].tokenShare
                  /\ claimTokensResult(r, a) = "Already claimed"
    /\ \A t \in ListedTokens :
           LET of == {r \in ReviewIds : reviews[r].tokenAddress = t} IN
           tokenBal[t] + SumOver([r \in ReviewIds |-> ReceivedFrom(r)], of)
               = SumOver(hist.delivered, of)

\* An agent has claimed its share of two tokens.
C3_Witness ==
    \E r \in ReviewIds, a \in Agents :
        /\ stack = <<>>
        /\ hist.claims[r][a] = 1
        /\ hist.received[r][a] = 2
        /\ claimTokensResult(r, a) = "Already claimed"

\* ------------------------------------------------------------------------ C4

\* C4: while claimTokens(r) by a waits for token.transfer, the share is already
\* marked claimed, so claimTokens(r) by a entered again from inside the transfer
\* is rejected with "Already claimed"; what a has received for r never exceeds
\* its tokenShare.
C4_ClaimedBeforeTransfer ==
    /\ \A k \in Pending("claimTokens") :
           /\ agentShares[stack[k].reviewId][stack[k].sender].claimed
           /\ claimTokensResult(stack[k].reviewId, stack[k].sender) = "Already claimed"
    /\ \A r \in ReviewIds, a \in Agents :
           hist.received[r][a] <= agentShares[r][a].tokenShare

\* The token has moved the share and its recipient is free to call back.
C4_Witness ==
    /\ env.reenter
    /\ stack # <<>>
    /\ Top.pc = "transfer"
    /\ CanEnter
    /\ hist.received[Top.reviewId][Top.sender] > 0
    /\ claimTokensResult(Top.reviewId, Top.sender) = "Already claimed"

\* ------------------------------------------------------------------------ C5

\* C5: in every reachable state and for every review, the pledgedAmount of the
\* agents' shares sum to the review's totalPledged.
C5_PledgesSumToTotal ==
    \A r \in ReviewIds : PledgedOn(r) = reviews[r].totalPledged

\* Two agents have pledged different amounts on one review.
C5_Witness ==
    \E r \in ReviewIds :
        /\ agentShares[r]["a1"].pledgedAmount = 1
        /\ agentShares[r]["a2"].pledgedAmount = 2
        /\ reviews[r].totalPledged = 3

\* ------------------------------------------------------------------------ C6

C7_EscrowNeverNegative ==
    /\ \A a \in AgentArgs : agentEscrow[a] >= 0
    /\ \A r \in ReviewIds, a \in Agents, p \in Principals, m \in 1 .. MaxPledge :
           (/\ reviewExists(r)
            /\ reviewOpen(r) = "OK"
            /\ delegations[p][a].delegate = a
            /\ delegations[p][a].expiry = 0 \/ now < delegations[p][a].expiry
            /\ theses[r][a].agent = Null
            /\ m <= delegations[p][a].maxAmount
            /\ m > agentEscrow[a])
           => submitThesisResult(r, a, TRUE, m, p) = "Insufficient escrow"

\* An agent that spent its escrow on one review cannot pledge on the other.
C7_Witness ==
    \E r1, r2 \in ReviewIds :
        /\ r1 # r2
        /\ agentShares[r1]["a1"].pledgedAmount = 1
        /\ agentEscrow["a1"] = 0
        /\ submitThesisResult(r2, "a1", TRUE, 1, "p1") = "Insufficient escrow"

\* ------------------------------------------------------------------------ C8

\* C8: once a review with totalPledged > 0 has totalPurchased > 0, every
\* agent's tokenShare is floor(pledgedAmount * totalPurchased / totalPledged).
C8_ProportionalShares ==
    \A r \in ReviewIds :
        Allocated(r) =>
            \A a \in Agents :
                agentShares[r][a].tokenShare =
                    (agentShares[r][a].pledgedAmount * reviews[r].totalPurchased)
                        \div reviews[r].totalPledged

\* Pledges 40 and 60, 1000 tokens bought: the shares are 400 and 600.
C8_Witness ==
    \E r \in ReviewIds :
        /\ hist.executions[r] = 1
        /\ reviews[r].totalPurchased = 1000
        /\ agentShares[r]["a1"].pledgedAmount = 40
        /\ agentShares[r]["a2"].pledgedAmount = 60
        /\ agentShares[r]["a1"].tokenShare = 400
        /\ agentShares[r]["a2"].tokenShare = 600

\* ------------------------------------------------------------------------ C9

\* C9: for every review with totalPledged > 0 and totalPurchased > 0, the
\* tokenShares sum to at most totalPurchased and fall short of it by less than
\* the number of agents that submitted a thesis.
C9_SharesWithinPurchase ==
    \A r \in ReviewIds :
        Allocated(r) =>
            /\ SharesOf(r) <= reviews[r].totalPurchased
            /\ reviews[r].totalPurchased - SharesOf(r) < Len(reviewAgents[r])

\* An executed review whose shares fall short of the purchase.
C9_Witness ==
    \E r \in ReviewIds :
        /\ hist.executions[r] = 1
        /\ Allocated(r)
        /\ SharesOf(r) < reviews[r].totalPurchased

\* ----------------------------------------------------------------------- C10

\* C10 as stated: the tokenShares sum to totalPurchased only when totalPledged
\* divides the pledgedAmount of every agent that submitted a thesis.
C10_Original ==
    \A r \in ReviewIds :
        (Allocated(r) /\ SharesOf(r) = reviews[r].totalPurchased) =>
            \A a \in Participants(r) :
                agentShares[r][a].pledgedAmount % reviews[r].totalPledged = 0

\* C10, amended: for every review with totalPledged > 0 and totalPurchased > 0,
\* the tokenShares sum to totalPurchased only when totalPledged divides
\* pledgedAmount * totalPurchased for every agent that submitted a thesis.
C10_EqualityOnlyWhenExact ==
    \A r \in ReviewIds :
        (Allocated(r) /\ SharesOf(r) = reviews[r].totalPurchased) =>
            \A a \in Participants(r) :
                (agentShares[r][a].pledgedAmount * reviews[r].totalPurchased)
                    % reviews[r].totalPledged = 0

\* Two agents pledged 1 each and 2 tokens were bought: the shares, 1 and 1, sum
\* to the purchase, and totalPledged = 2 divides neither pledge.
C10_Witness ==
    \E r \in ReviewIds :
        /\ hist.executions[r] = 1
        /\ reviews[r].totalPledged = 2
        /\ reviews[r].totalPurchased = 2
        /\ agentShares[r]["a1"].tokenShare = 1
        /\ agentShares[r]["a2"].tokenShare = 1

\* ----------------------------------------------------------------------- C11

PaidOn(r) == SumOver([a \in Agents |-> hist.paid[r][a]], Agents)

UnpaidOn(r) == SumOver([a \in Agents |-> hist.unpaid[r][a]], Agents)

\* What the contract holds: the escrows, the pledges not yet spent and the fees
\* not paid out.
Holdings ==
    SumOver(agentEscrow, AgentArgs)
    + SumOver([r \in ReviewIds |-> reviews[r].totalPledged - hist.spent[r]], ReviewIds)
    + SumOver([r \in ReviewIds |-> reviews[r].submissionFee - PaidOn(r)], ReviewIds)

FeeShare(r, k) ==
    LET n == Len(reviewAgents[r])
        perAgent == reviews[r].submissionFee \div n
    IN IF k = n THEN reviews[r].submissionFee - (n - 1) * perAgent ELSE perAgent

\* C12: for every executed review with n >= 1 submitters, bullish or bearish,
\* the k-th submitter whose payment did not fail was paid floor(fee / n) when
\* k < n and floor(fee / n) + (fee - n * floor(fee / n)) when k = n; a
\* submitter is never paid anything else.
C12_FeeShares ==
    \A r \in ReviewIds :
        \A k \in 1 .. Len(reviewAgents[r]) :
            LET a == reviewAgents[r][k] IN
            /\ hist.paid[r][a] \in {0, FeeShare(r, k)}
            /\ (hist.executions[r] = 1 /\ hist.unpaid[r][a] = 0)
                   => hist.paid[r][a] = FeeShare(r, k)

\* A fee of 100 paid to three submitters: 33, 33 and 34 in submission order.
C12_Witness ==
    \E r \in ReviewIds :
        /\ hist.executions[r] = 1
        /\ reviews[r].submissionFee = 100
        /\ Len(reviewAgents[r]) = 3
        /\ hist.paid[r][reviewAgents[r][1]] = 33
        /\ hist.paid[r][reviewAgents[r][2]] = 33
        /\ hist.paid[r][reviewAgents[r][3]] = 34

\* ----------------------------------------------------------------------- C13

\* C13: a failed fee payment does not undo the execution (the review stays
\* executed, the purchase stays made and its shares allocated), the execution
\* returns, and in a returned execution with a failed payment every other
\* submitter, earlier or later in submission order, was paid its fee share.
C13_FeeFailureSwallowed ==
    \A r \in ReviewIds :
        UnpaidOn(r) > 0 =>
            /\ reviews[r].executed
            /\ reviews[r].totalPledged > 0 =>
                   /\ hist.purchases[r] = 1
                   /\ reviews[r].totalPurchased > 0 =>
                          \A a \in Agents :
                              agentShares[r][a].tokenShare =
                                  (agentShares[r][a].pledgedAmount
                                       * reviews[r].totalPurchased)
                                      \div reviews[r].totalPledged
            /\ stack = <<>> => hist.executions[r] = 1
            /\ hist.executions[r] = 1 =>
                   \A k \in 1 .. Len(reviewAgents[r]) :
                       LET a == reviewAgents[r][k] IN
                       IF hist.unpaid[r][a] > 0 THEN hist.paid[r][a] = 0
                       ELSE hist.paid[r][a] = FeeShare(r, k)

\* The payment to the second of three submitters failed; the first and the
\* third were paid.
C13_Witness ==
    \E r \in ReviewIds :
        /\ hist.executions[r] = 1
        /\ Len(reviewAgents[r]) = 3
        /\ hist.paid[r][reviewAgents[r][1]] = 33
        /\ hist.unpaid[r][reviewAgents[r][2]] = 1
        /\ hist.paid[r][reviewAgents[r][2]] = 0
        /\ hist.paid[r][reviewAgents[r][3]] = 34

\* ----------------------------------------------------------------------- C14

\* A step that is a call from outside: a transaction, or a call back into the
\* contract from the callee of a pending call (not a return of a pending call,
\* not the passing of time).
CallStep ==
    IF stack = <<>> THEN now' = now
    ELSE stack' # <<>> /\ stack'[1].reentries = stack[1].reentries + 1

\* Every change a call makes to the storage is the effect of a call that its
\* function accepts in the state it is made in.
C14_Step ==
    CallStep =>
        /\ \A p \in Principals, a \in AgentArgs :
               delegations'[p][a] # delegations[p][a] =>
                   \/ registerDelegationResult(p, a, delegations'[p][a].maxAmount) = "OK"
                   \/ revokeDelegationResult(p, a) = "OK"
        /\ \A a \in AgentArgs :
               /\ agentEscrow'[a] > agentEscrow[a] =>
                      \E p \in Principals :
                          depositForAgentResult(p, a, agentEscrow'[a] - agentEscrow[a]) = "OK"
               /\ agentEscrow'[a] < agentEscrow[a] =>
                      \E r \in ReviewIds, p \in Principals :
                          submitThesisResult(r, a, TRUE, agentEscrow[a] - agentEscrow'[a], p)
                              = "OK"
        /\ \A r \in ReviewIds :
               (\/ theses'[r] # theses[r]
                \/ reviewAgents'[r] # reviewAgents[r]
                \/ reviews'[r].totalPledged # reviews[r].totalPledged
                \/ \E a \in Agents :
                       agentShares'[r][a].pledgedAmount # agentShares[r][a].pledgedAmount)
               => \E a \in Agents, p \in Principals :
                      /\ theses'[r][a] # theses[r][a]
                      /\ submitThesisResult(r, a, theses'[r][a].bullish,
                                            theses'[r][a].pledgedAmount, p) = "OK"
        /\ \A r \in ReviewIds :
               (\/ reviews'[r].executed # reviews[r].executed
                \/ reviews'[r].totalPurchased # reviews[r].totalPurchased
                \/ \E a \in Agents :
                       agentShares'[r][a].tokenShare # agentShares[r][a].tokenShare)
               => executeReviewResult(r) = "OK"
        /\ \A r \in ReviewIds, a \in Agents :
               agentShares'[r][a].claimed # agentShares[r][a].claimed =>
                   claimTokensResult(r, a) = "OK"
        /\ \A a \in Agents :
               agentIdentities'[a] # agentIdentities[a] =>
                   \/ registerAgentResult(a) = "OK"
                   \/ \E s \in {Owner} \cup Principals, r \in ReviewIds :
                          updateReputationResult(s, r, a) = "OK"
        /\ (nextReviewId' # nextReviewId \/ \E r \in ReviewIds : reviews'[r].exists # reviews[r].exists)
               => submitTokenResult(reviews'[nextReviewId].tokenAddress,
                                    reviews'[nextReviewId].submissionFee, SUCCESS) = "OK"

\* C14: a call that one of the contract's requires rejects (unknown review,
\* window closed, already executed, no or expired delegation, duplicate thesis,
\* zero bullish pledge, pledge above the ceiling, insufficient escrow, already
\* registered, already claimed, ...) changes nothing: whenever a call changes
\* the escrow balances, the review totals, the theses, the participant lists,
\* the shares, the delegations or the identities, its function accepts it.
C14_RejectedChangesNothing == [][C14_Step]_vars

\* A bullish pledge above the delegation ceiling, with the escrow to cover it, is
\* rejected.
C14_Witness ==
    \E r \in ReviewIds, a \in Agents, p \in Principals :
        /\ agentEscrow[a] >= 2
        /\ delegations[p][a].maxAmount = 1
        /\ submitThesisResult(r, a, TRUE, 2, p) = "Exceeds delegation limit"

\* ----------------------------------------------------------------------- C15

\* The delegation from p that submitThesis by a requires
ValidDelegation(p, a) ==
    /\ delegations[p][a].delegate = a
    /\ delegations[p][a].expiry = 0 \/ now < delegations[p][a].expiry

C15_OneThesis ==
    \A r \in ReviewIds :
        /\ \A j, k \in 1 .. Len(reviewAgents[r]) :
               reviewAgents[r][j] = reviewAgents[r][k] => j = k
        /\ \A a \in Agents :
               /\ theses[r][a].agent # Null <=> a \in Participants(r)
               /\ theses[r][a].agent # Null =>
                      \A b \in BOOLEAN, m \in 0 .. MaxPledge, p \in Principals :
                          /\ submitThesisResult(r, a, b, m, p) # "OK"
                          /\ (reviewOpen(r) = "OK" /\ ValidDelegation(p, a))
                                 => submitThesisResult(r, a, b, m, p)
                                        = "Thesis already submitted"

C15_Kept ==
    \A r \in ReviewIds, a \in Agents :
        Committed.theses[r][a].agent # Null =>
            Committed'.theses[r][a] = Committed.theses[r][a]

\* C15: an agent with a thesis on a review, bullish or bearish, cannot submit
\* another: every submitThesis by it on that review is rejected, and with
\* "Thesis already submitted" whenever the review is open and the principal it
\* names has delegated to it, whichever principal that is and whatever the
\* stance and the pledge; no agent is twice in a review's participant list; and
\* from one transaction boundary to the next a stored thesis stays as it is.
C15_OneThesisPerAgent == [](C15_OneThesis) /\ [][C15_Kept]_vars

\* An agent with a bearish thesis on an open review and delegations from two
\* principals: a bullish thesis that its escrow covers is rejected under both.
C15_Witness ==
    \E r \in ReviewIds :
        /\ theses[r]["a1"].agent = "a1"
        /\ ~theses[r]["a1"].bullish
        /\ agentEscrow["a1"] >= 1
        /\ \A p \in Principals :
               /\ delegations[p]["a1"].maxAmount >= 1
               /\ submitThesisResult(r, "a1", TRUE, 1, p) = "Thesis already submitted"

\* ----------------------------------------------------------------------- C16

C16_Window ==
    \A r \in ReviewIds :
        reviews[r].exists =>
            /\ reviews[r].executed => now >= reviews[r].deadline
            /\ (now < reviews[r].deadline /\ ~reviews[r].executed)
                   => executeReviewResult(r) = "Window not closed yet"
            /\ \A a \in Agents :
                   /\ theses[r][a].agent # Null =>
                          theses[r][a].submittedAt < reviews[r].deadline
                   /\ \A b \in BOOLEAN, m \in 0 .. MaxPledge, p \in Principals :
                          submitThesisResult(r, a, b, m, p) = "OK" =>
                              now < reviews[r].deadline /\ ~reviews[r].executed

C16_Closed ==
    \A r \in ReviewIds :
        (reviews[r].exists /\ (now >= reviews[r].deadline \/ reviews[r].executed)) =>
            /\ theses'[r] = theses[r]
            /\ reviewAgents'[r] = reviewAgents[r]
            /\ reviews'[r].totalPledged = reviews[r].totalPledged
            /\ \A a \in Agents :
                   agentShares'[r][a].pledgedAmount = agentShares[r][a].pledgedAmount

\* C16: submitThesis is accepted only while now < deadline and the review is not
\* executed, and executeReview is rejected with "Window not closed yet" while
\* now < deadline: a review is executed only at or after its deadline, every
\* thesis was submitted before it, and from the deadline on, or once the review
\* is executed, no step adds a thesis or a pledge to it.
C16_DeadlineSeparates == [](C16_Window) /\ [][C16_Closed]_vars

\* At the deadline of a review with a thesis: another agent with a delegation
\* is too late, and the review can be executed.
C16_Witness ==
    \E r \in ReviewIds, p \in Principals :
        /\ now = reviews[r].deadline
        /\ theses[r]["a1"].agent = "a1"
        /\ theses[r]["a2"].agent = Null
        /\ ValidDelegation(p, "a2")
        /\ submitThesisResult(r, "a2", FALSE, 0, p) = "Review window closed"
        /\ executeReviewResult(r) = "OK"

\* ----------------------------------------------------------------------- C17

C17_NotYet ==
    \A r \in ReviewIds :
        ~reviews[r].executed =>
            /\ reviews[r].totalPurchased = 0
            /\ \A a \in Agents : agentShares[r][a].tokenShare = 0

\* The results of review r in the committed state s
Results(s, r) ==
    <<s.reviews[r].executed, s.reviews[r].totalPledged, s.reviews[r].totalPurchased,
      s.reviewAgents[r], s.theses[r],
      [a \in Agents |-> <<s.agentShares[r][a].pledgedAmount,
                          s.agentShares[r][a].tokenShare>>]>>

C17_WriteOnce ==
    \A r \in ReviewIds :
        /\ Committed.reviews[r].executed => Results(Committed', r) = Results(Committed, r)
        /\ (\/ Committed'.reviews[r].totalPurchased # Committed.reviews[r].totalPurchased
            \/ \E a \in Agents : Committed'.agentShares[r][a].tokenShare
                                      # Committed.agentShares[r][a].tokenShare)
               => /\ ~Committed.reviews[r].executed
                  /\ Committed'.reviews[r].executed
                  /\ Committed'.hist.executions[r] = 1

\* C17: while a review is not executed its totalPurchased and every tokenShare
\* are 0; they change only in the transaction in which the review's one
\* execution returns; and once a review is executed, from one transaction
\* boundary to the next it stays executed and its totalPledged,
\* totalPurchased, participant list, theses, pledgedAmounts and tokenShares
\* stay as they are (the claimed flags may change).
C17_ExecutedIsTerminal == [](C17_NotYet) /\ [][C17_WriteOnce]_vars

\* An executed review with a purchase, one of whose shares has been claimed.
C17_Witness ==
    \E r \in ReviewIds, a \in Agents :
        /\ stack = <<>>
        /\ hist.executions[r] = 1
        /\ reviews[r].totalPurchased > 0
        /\ agentShares[r][a].tokenShare > 0
        /\ agentShares[r][a].claimed

\* ----------------------------------------------------------------------- C18

\* The contract's own transaction is an executeReview(r) that passed its checks.
Executing(r) ==
    /\ stack # <<>>
    /\ stack[1].fn = "executeReview"
    /\ stack[1].reviewId = r

C18_Accepted ==
    \A r \in ReviewIds :
        /\ executeReviewResult(r) \in
               {"OK", "Review does not exist", "Already executed", "Window not closed yet"}
        /\ (reviews[r].exists /\ ~reviews[r].executed /\ now >= reviews[r].deadline)
               => executeReviewResult(r) = "OK"

C18_FailsWithPurchase ==
    \A r \in ReviewIds :
        (Executing(r) /\ stack' = <<>>) =>
            \/ hist'.executions[r] = 1
            \/ /\ Len(stack) = 1
               /\ Top.pc = "buyJob"
               /\ ~reviews'[r].executed

\* The venue may make the purchase fail.
PurchaseMayFail == "buyJob" \in env.failing \/ env.reenter

C19_AllBearish ==
    \A r \in ReviewIds :
        (reviews[r].totalPledged = 0 /\ Len(reviewAgents[r]) >= 1) =>
            /\ hist.purchases[r] = 0
            /\ hist.spent[r] = 0
            /\ hist.announced[r] = 0
            /\ \A i \in 1 .. Len(stack) :
                   (stack[i].fn = "executeReview" /\ stack[i].reviewId = r)
                       => stack[i].pc = "fee"
            /\ hist.executions[r] = 1 =>
                   /\ reviews[r].executed
                   /\ reviews[r].totalPurchased = 0
                   /\ hist.feeRuns[r] = 1
                   /\ \A k \in 1 .. Len(reviewAgents[r]) :
                          LET a == reviewAgents[r][k] IN
                          /\ ~theses[r][a].bullish
                          /\ agentShares[r][a].tokenShare = 0
                          /\ IF hist.unpaid[r][a] > 0 THEN hist.paid[r][a] = 0
                             ELSE hist.paid[r][a] = FeeShare(r, k)

\* Three bearish submitters on a fee of 100: the review is executed without a
\* purchase or an event, and the fee is paid 33, 33, 34.
C19_Witness ==
    \E r \in ReviewIds :
        /\ stack = <<>>
        /\ hist.executions[r] = 1
        /\ reviews[r].executed
        /\ reviews[r].totalPledged = 0
        /\ Len(reviewAgents[r]) = 3
        /\ hist.purchases[r] = 0
        /\ hist.announced[r] = 0
        /\ PaidOn(r) = 100

\* ----------------------------------------------------------------------- C20

\* C20: for a review without thesis submitters, executeReview makes no external
\* call at all: no buyJob, nothing spent, no fee payment made or attempted to
\* any address; and once it has run the review is executed, with nothing
\* purchased, no ReviewExecuted event, and its fee still held by the contract.
C20_NoSubmitters ==
    \A r \in ReviewIds :
        Len(reviewAgents[r]) = 0 =>
            /\ reviews[r].totalPledged = 0
            /\ hist.purchases[r] = 0
            /\ hist.spent[r] = 0
            /\ \A a \in Agents : hist.paid[r][a] = 0 /\ hist.unpaid[r][a] = 0
            /\ \A i \in 1 .. Len(stack) :
                   ~(stack[i].fn = "executeReview" /\ stack[i].reviewId = r)
            /\ reviews[r].executed <=> hist.executions[r] = 1
            /\ hist.executions[r] = 1 =>
                   /\ reviews[r].totalPurchased = 0
                   /\ hist.announced[r] = 0
                   /\ balance >= reviews[r].submissionFee

\* A review executed after its window passed without any thesis: its fee is
\* still in the contract.
C20_Witness ==
    \E r \in ReviewIds :
        /\ stack = <<>>
        /\ Len(reviewAgents[r]) = 0
        /\ hist.executions[r] = 1
        /\ reviews[r].executed
        /\ reviews[r].submissionFee > 0
        /\ balance >= reviews[r].submissionFee
        /\ hist.purchases[r] = 0

\* ----------------------------------------------------------------------- C21

\* No grant from p to a is stored: the entry of the mapping is the zero struct.
NoGrant(p, a) == delegations[p][a] = NoDelegation

\* C21 as stated: for every principal and every agentAddress, address(0)
\* included, depositForAgent and revokeDelegation are rejected with "No
\* delegation found" whenever no grant from the principal to that address is
\* stored.
C21_NoDelegationRejected ==
    \A p \in Principals, a \in AgentArgs :
        NoGrant(p, a) =>
            /\ \A v \in 0 .. MaxValue :
                   depositForAgentResult(p, a, v) = "No delegation found"
            /\ revokeDelegationResult(p, a) = "No delegation found"

\* No grant to address(0) is stored, and yet a deposit has been credited to the
\* escrow of address(0).
C21_Witness ==
    /\ \A p \in Principals : NoGrant(p, Null)
    /\ agentEscrow[Null] > 0
    /\ hist.deposited[Null] = agentEscrow[Null]
    /\ balance >= agentEscrow[Null]

\* ----------------------------------------------------------------------- C22

\* A step of a revokeDelegation(p, a) that deletes a stored grant: the grant
\* disappears in a call that enters the contract and returns (a failed external
\* call, which may also undo a grant, removes or replaces the innermost frame).
Revoked(p, a) ==
    /\ ~NoGrant(p, a)
    /\ delegations'[p][a] = NoDelegation
    /\ stack' = Entered

C23_RevokeReturnsEscrow ==
    [][\A p \in Principals, a \in Agents :
          Revoked(p, a) =>
              /\ agentEscrow'[a] = 0
              /\ balance' = balance - agentEscrow[a]]_vars

\* After the revocation of its only grant the agent's whole deposit, none of it
\* pledged, is still held by the contract.
C23_Witness ==
    \E a \in Agents :
        /\ \A p \in Principals : NoGrant(p, a)
        /\ agentEscrow[a] > 0
        /\ agentEscrow[a] = hist.deposited[a]
        /\ balance >= agentEscrow[a]
        /\ stack = <<>>

\* ----------------------------------------------------------------------- C24

\* C24: while no grant from principal p to agent a is stored (after a
\* revokeDelegation and until p registers a delegation to a again), every
\* submitThesis of a naming p is rejected, with "No valid delegation" whenever
\* the review exists and is open and otherwise by the review checks that come
\* first; the pledges a has recorded stay in the review's shares and total
\* whatever became of the grant, and an execution with a purchase spends the
\* whole of totalPledged.
C24_RevokedGrantStopsFuturePledges ==
    /\ \A p \in Principals, a \in Agents :
           NoGrant(p, a) =>
               \A r \in ReviewIds, b \in BOOLEAN, amt \in 0 .. MaxPledge :
                   LET res == submitThesisResult(r, a, b, amt, p) IN
                   /\ res \in {"Review does not exist", "Already executed",
                               "Review window closed", "No valid delegation"}
                   /\ (reviewExists(r) /\ reviewOpen(r) = "OK")
                          => res = "No valid delegation"
    /\ \A r \in ReviewIds :
           /\ \A a \in Agents :
                  theses[r][a].bullish =>
                      /\ theses[r][a].pledgedAmount > 0
                      /\ agentShares[r][a].pledgedAmount = theses[r][a].pledgedAmount
           /\ reviews[r].totalPledged = PledgedOn(r)
           /\ hist.purchases[r] = 1 => hist.spent[r] = reviews[r].totalPledged

\* The agent has a pledge on an open review and the grant of the principal was
\* then revoked: the pledge stays, and a further thesis naming the principal is
\* rejected for want of a delegation.
C24_Witness ==
    \E r \in ReviewIds, a \in Agents :
        /\ reviewExists(r)
        /\ reviewOpen(r) = "OK"
        /\ agentShares[r][a].pledgedAmount > 0
        /\ reviews[r].totalPledged >= agentShares[r][a].pledgedAmount
        /\ \A p \in Principals : NoGrant(p, a)
        /\ submitThesisResult(r, a, FALSE, 0, "p1") = "No valid delegation"

\* ----------------------------------------------------------------------- C25

\* The checks of submitThesis that come before the bullish ones pass.
BullishChecksReached(r, a, p) ==
    /\ reviewExists(r)
    /\ reviewOpen(r) = "OK"
    /\ delegations[p][a].delegate = a
    /\ delegations[p][a].expiry = 0 \/ now < delegations[p][a].expiry
    /\ theses[r][a].agent = Null

C25_Checks ==
    /\ \A r \in ReviewIds, a \in Agents, p \in Principals, amt \in 0 .. MaxPledge :
           LET res == submitThesisResult(r, a, TRUE, amt, p) IN
           /\ res = "OK" => (0 < amt /\ amt <= delegations[p][a].maxAmount)
           /\ BullishChecksReached(r, a, p) =>
                  /\ amt = 0 => res = "Must pledge > 0 if bullish"
                  /\ (amt > 0 /\ amt > delegations[p][a].maxAmount)
                         => res = "Exceeds delegation limit"
    /\ \A r \in ReviewIds, a \in Agents :
           theses[r][a].bullish => theses[r][a].pledgedAmount > 0

C25_Recorded ==
    \A r \in ReviewIds, a \in Agents :
        (theses[r][a].agent = Null /\ theses'[r][a].agent # Null
             /\ theses'[r][a].bullish) =>
            \E p \in Principals :
                /\ submitThesisResult(r, a, TRUE, theses'[r][a].pledgedAmount, p) = "OK"
                /\ 0 < theses'[r][a].pledgedAmount
                /\ theses'[r][a].pledgedAmount <= delegations[p][a].maxAmount

\* C25: a bullish submitThesis is accepted only with 0 < pledgedAmount <=
\* maxAmount of the delegation from the named delegator to the sender as stored
\* when it is called; once the earlier checks pass, pledgedAmount = 0 is
\* rejected with "Must pledge > 0 if bullish" and an amount above maxAmount with
\* "Exceeds delegation limit"; and every bullish thesis is recorded by such an
\* accepted call, with the amount of the call.
C25_PledgeWithinLimit == [](C25_Checks) /\ [][C25_Recorded]_vars

\* A bullish thesis pledging exactly the maxAmount of the only grant the agent
\* has, which is below the highest amount an agent may ask for.
C25_Witness ==
    \E r \in ReviewIds, a \in Agents :
        /\ theses[r][a].bullish
        /\ theses[r][a].pledgedAmount = 1
        /\ delegations["p1"][a].maxAmount = 1
        /\ NoGrant("p2", a)
        /\ agentEscrow[a] >= 1

\* ----------------------------------------------------------------------- C26

C26_Grants ==
    /\ \A p \in Principals, m \in 0 .. MaxLimit :
           /\ registerDelegationResult(p, Null, m) = "Invalid agent"
           /\ \A a \in Agents :
                  registerDelegationResult(p, a, m) =
                      IF m = 0 THEN "maxAmount must be > 0" ELSE "OK"
    /\ \A p \in Principals, a \in AgentArgs :
           \/ NoGrant(p, a)
           \/ /\ a # Null
              /\ delegations[p][a].delegator = p
              /\ delegations[p][a].delegate = a
              /\ delegations[p][a].maxAmount > 0

\* A step of a registerDelegation of p for a: the entry of the pair is written
\* in a call that enters the contract and returns.
Registered(p, a) ==
    /\ delegations'[p][a] # delegations[p][a]
    /\ delegations'[p][a] # NoDelegation
    /\ stack' = Entered

C26_Replaces ==
    \A p \in Principals, a \in AgentArgs :
        Registered(p, a) =>
            /\ registerDelegationResult(p, a, delegations'[p][a].maxAmount) = "OK"
            /\ delegations' = [delegations EXCEPT ![p][a] = delegations'[p][a]]
            /\ UNCHANGED <<agentEscrow, balance, reviews, theses, reviewAgents,
                           agentShares>>

\* C26: registerDelegation is rejected with "Invalid agent" for address(0) and
\* with "maxAmount must be > 0" for maxAmount = 0 and a non-null agent, and is
\* accepted otherwise; it writes the one entry of its (delegator, agent) pair,
\* replacing what was stored there, so that every stored grant is that of its
\* pair with maxAmount > 0, and it leaves the grants of other pairs, the
\* escrows and the balance unchanged.
C26_OneGrantPerPair == [](C26_Grants) /\ [][C26_Replaces]_vars

\* Two principals have each a grant to the same agent, with different limits
\* and expiries, and the agent's escrow is funded.
C26_Witness ==
    \E a \in Agents :
        /\ delegations["p1"][a] =
               [delegator |-> "p1", delegate |-> a, maxAmount |-> 1, expiry |-> 0]
        /\ delegations["p2"][a] =
               [delegator |-> "p2", delegate |-> a, maxAmount |-> 2, expiry |-> 1]
        /\ agentEscrow[a] > 0

\* ----------------------------------------------------------------------- C27

HasIdentity(a) == agentIdentities[a].agentAddress # Null

C27_Checks ==
    \A a \in Agents :
        /\ registerAgentResult(a) = IF HasIdentity(a) THEN "Already registered" ELSE "OK"
        /\ agentIdentities[a].agentAddress \in {Null, a}
        /\ ~HasIdentity(a) => agentIdentities[a] = NoIdentity

C27_Kept ==
    \A a \in Agents :
        HasIdentity(a) =>
            /\ agentIdentities'[a].agentAddress = a
            /\ agentIdentities'[a].registrationTime = agentIdentities[a].registrationTime
            /\ \/ agentIdentities'[a] = agentIdentities[a]
               \/ agentIdentities'[a].totalTrades = agentIdentities[a].totalTrades + 1

\* C27: registerAgent is accepted for a sender without an identity record and
\* rejected with "Already registered" for one that has a record; a record,
\* once created, keeps its agentAddress and registrationTime in every step, and
\* its reputationScore, totalTrades and profitableTrades change only in a step
\* that counts a trade: no operation deletes or resets it.
C27_RegisteredOnce == [](C27_Checks) /\ [][C27_Kept]_vars

\* An agent registered at time 0 whose reputation has since changed: a second
\* registerAgent is rejected.
C27_Witness ==
    \E a \in Agents :
        /\ HasIdentity(a)
        /\ agentIdentities[a].registrationTime = 0
        /\ agentIdentities[a].totalTrades > 0
        /\ agentIdentities[a].reputationScore # 0
        /\ now > 0
        /\ registerAgentResult(a) = "Already registered"

\* ----------------------------------------------------------------------- C28

\* The conditions under which updateReputation(reviewId, agent, _) from sender
\* is meant to take effect.
MayUpdate(sender, r, a) ==
    /\ sender = Owner
    /\ reviews[r].exists
    /\ reviews[r].executed
    /\ a \in Agents
    /\ agentShares[r][a].pledgedAmount > 0
    /\ agentIdentities[a].agentAddress # Null

C28_Checks ==
    \A sender \in {Owner} \cup Principals \cup Agents,
       r \in ReviewIds, a \in AgentArgs :
        LET res == updateReputationResult(sender, r, a) IN
        /\ res = "OK" <=> MayUpdate(sender, r, a)
        /\ res \in {"OK", "Not owner", "Review does not exist",
                    "Review not yet executed", "Agent did not invest",
                    "Agent not registered (ERC-8004)"}
        /\ sender # Owner => res = "Not owner"

Counters(id) == <<id.reputationScore, id.totalTrades, id.profitableTrades>>

C28_OnlyUpdate ==
    \A a \in Agents :
        Counters(agentIdentities'[a]) # Counters(agentIdentities[a]) =>
            /\ \E r \in ReviewIds : MayUpdate(Owner, r, a)
            /\ agentIdentities'[a].totalTrades = agentIdentities[a].totalTrades + 1
            /\ \/ /\ agentIdentities'[a].reputationScore =
                         agentIdentities[a].reputationScore + REPUTATION_WIN_DELTA
                  /\ agentIdentities'[a].profitableTrades =
                         agentIdentities[a].profitableTrades + 1
               \/ /\ agentIdentities'[a].reputationScore =
                         agentIdentities[a].reputationScore - REPUTATION_LOSS_DELTA
                  /\ agentIdentities'[a].profitableTrades =
                         agentIdentities[a].profitableTrades
            /\ \A other \in Agents \ {a} :
                   agentIdentities'[other] = agentIdentities[other]
            /\ UNCHANGED <<reviews, theses, reviewAgents, agentShares, delegations,
                           agentEscrow, balance, tokenBal, nextReviewId>>

\* C28: updateReputation is accepted exactly when the sender is the owner, the
\* review exists and is executed, the agent has a pledgedAmount > 0 on it and
\* the agent has an identity record, and is otherwise rejected with "Not
\* owner", "Review does not exist", "Review not yet executed", "Agent did not
\* invest" or "Agent not registered (ERC-8004)"; reputationScore, totalTrades
\* and profitableTrades of an agent change only in a step of an accepted
\* updateReputation for that agent, which counts one trade, adds or subtracts
\* one reputation point and changes nothing else.
C28_OnlyOwnerUpdatesReputation == [](C28_Checks) /\ [][C28_OnlyUpdate]_vars

\* One profitable and one unprofitable trade recorded for a registered agent
\* that invested, while the other investor, unregistered, is refused.
C28_Witness ==
    \E r \in ReviewIds :
        /\ agentIdentities["a1"].totalTrades = 2
        /\ agentIdentities["a1"].profitableTrades = 1
        /\ agentIdentities["a1"].reputationScore = 0
        /\ agentShares[r]["a2"].pledgedAmount > 0
        /\ updateReputationResult(Owner, r, "a2") = "Agent not registered (ERC-8004)"
        /\ updateReputationResult("p1", r, "a1") = "Not owner"

\* ----------------------------------------------------------------------- C29

C29_Dense ==
    /\ nextReviewId \in 0 .. MaxReviews
    /\ \A i \in ReviewIds : reviews[i].exists <=> i < nextReviewId
    /\ \A i \in ReviewIds : ~reviews[i].exists => reviews[i] = NoReview

C29_Counts ==
    /\ Committed'.nextReviewId >= Committed.nextReviewId
    /\ nextReviewId' > nextReviewId =>
           /\ nextReviewId' = nextReviewId + 1
           /\ ~reviews[nextReviewId].exists
           /\ reviews'[nextReviewId].exists
           /\ \A i \in ReviewIds \ {nextReviewId} : reviews'[i] = reviews[i]
           /\ submitTokenResult(reviews'[nextReviewId].tokenAddress,
                                reviews'[nextReviewId].submissionFee, SUCCESS) = "OK"

\* C29: review ids are dense and zero-based: the reviews that exist are those
\* with an id below nextReviewId; a submitToken that is accepted creates the
\* review whose id is the nextReviewId it found and adds one to nextReviewId,
\* no other step raises nextReviewId (a rejected or reverted submitToken uses
\* no id), and between transactions nextReviewId never decreases.
C29_DenseReviewIds == [](C29_Dense) /\ [][C29_Counts]_vars

\* Two reviews have been submitted: ids 0 and 1.
C29_Witness ==
    /\ nextReviewId = 2
    /\ reviews[0].exists
    /\ reviews[1].exists
    /\ reviews[1].creator = Creator

\* ----------------------------------------------------------------------- C30

C30_Checks ==
    /\ \A t \in TokenArgs, v \in 0 .. MaxFee, rc \in {SUCCESS, UNKNOWN} :
           LET res == submitTokenResult(t, v, rc) IN
           /\ v < MIN_SUBMISSION_FEE => res = "Insufficient submission fee"
           /\ (v >= MIN_SUBMISSION_FEE /\ t = Null) => res = "Invalid token address"
           /\ (v >= MIN_SUBMISSION_FEE /\ t # Null /\ t \notin ListedTokens)
                  => res = "Token not found on MemeJob"
           /\ (v >= MIN_SUBMISSION_FEE /\ t \in ListedTokens /\ rc # SUCCESS)
                  => res = "scheduleCall failed"
           /\ (v >= MIN_SUBMISSION_FEE /\ t \in ListedTokens /\ rc = SUCCESS)
                  => res = "OK"
    /\ \A i \in ReviewIds :
           reviews[i].exists =>
               /\ reviews[i].submissionFee >= MIN_SUBMISSION_FEE
               /\ reviews[i].tokenAddress \in ListedTokens
               /\ reviews[i].scheduleAddress # Null
               /\ reviews[i].creator = Creator

C30_Created ==
    \A i \in ReviewIds :
        (~reviews[i].exists /\ reviews'[i].exists) =>
            /\ i = nextReviewId
            /\ nextReviewId' = nextReviewId + 1
            /\ ~reviews'[i].executed
            /\ reviews'[i].totalPledged = 0
            /\ reviews'[i].totalPurchased = 0
            /\ reviews'[i].deadline = now + REVIEW_WINDOW
            /\ balance' = balance + reviews'[i].submissionFee
            /\ reviewAgents'[i] = <<>>

C30_NotCreated ==
    nextReviewId' = nextReviewId =>
        \A i \in ReviewIds : reviews'[i].exists = reviews[i].exists

\* C30: submitToken is rejected with "Insufficient submission fee" when
\* msg.value < MIN_SUBMISSION_FEE, with "Invalid token address" for address(0),
\* with "Token not found on MemeJob" for a token MemeJob does not list, and
\* with "scheduleCall failed" when the schedule service does not answer
\* SUCCESS, each once the requires before it pass; every review that exists was
\* created by an accepted call, no review appears while nextReviewId stays,
\* and a review is created with executed = false, totalPledged = 0,
\* totalPurchased = 0 and deadline = block.timestamp + REVIEW_WINDOW.
C30_SubmitTokenChecks ==
    [](C30_Checks) /\ [][C30_Created /\ C30_NotCreated]_vars

\* A review submitted with exactly the minimum fee, in an environment in which
\* the schedule service may refuse: it is open, with nothing pledged.
C30_Witness ==
    \E i \in ReviewIds :
        /\ "scheduleCall" \in env.failing
        /\ reviews[i].exists
        /\ reviews[i].submissionFee = MIN_SUBMISSION_FEE
        /\ reviews[i].deadline = now + REVIEW_WINDOW
        /\ reviews[i].totalPledged = 0
        /\ ~reviews[i].executed
        /\ nextReviewId = i + 1

\* ----------------------------------------------------------------------- C31

\* The agent has a bearish thesis on the review.
Bearish(r, a) == theses[r][a].agent # Null /\ ~theses[r][a].bullish

C31_Bearish ==
    \A r \in ReviewIds, a \in Agents :
        Bearish(r, a) =>
            /\ theses[r][a].pledgedAmount = 0
            /\ agentShares[r][a] = NoShare
            /\ a \in Participants(r)
            /\ hist.received[r][a] = 0
            /\ claimTokensResult(r, a) \in {"Not yet executed", "No tokens to claim"}
            /\ reviews[r].executed => claimTokensResult(r, a) = "No tokens to claim"

C31_Submitted ==
    \A r \in ReviewIds, a \in Agents :
        (~Bearish(r, a) /\ Bearish(r, a)') =>
            /\ reviewAgents'[r] = Append(reviewAgents[r], a)
            /\ UNCHANGED <<agentEscrow, balance, reviews, agentShares>>

\* C31: an accepted bearish submitThesis records pledgedAmount = 0 whatever
\* amount was passed, changes neither an escrow nor the review's totalPledged,
\* writes no AgentShare, and appends the sender to reviewAgents; in every later
\* state the agent's share on the review is the empty one (tokenShare = 0),
\* it has received nothing, and its claimTokens is rejected: with "No tokens
\* to claim" once the review is executed, with "Not yet executed" before.
C31_BearishHasNoShare == [](C31_Bearish) /\ [][C31_Submitted]_vars

\* A bearish agent with escrow, next to a bullish one, on a review that was
\* executed and bought tokens: the bearish agent has no share to claim.
C31_Witness ==
    \E r \in ReviewIds, a \in Agents :
        /\ Bearish(r, a)
        /\ agentEscrow[a] > 0
        /\ hist.executions[r] = 1
        /\ reviews[r].totalPurchased > 0
        /\ Len(reviewAgents[r]) = 2
        /\ claimTokensResult(r, a) = "No tokens to claim"

\* ----------------------------------------------------------------------- C32

\* A pending buyJob of executeReview(r)
Buying(r) ==
    \E i \in 1 .. Len(stack) :
        stack[i].fn = "executeReview" /\ stack[i].reviewId = r /\ stack[i].bought

C32_Purchases ==
    \A r \in ReviewIds :
        /\ hist.purchases[r] \in {0, 1}
        /\ hist.purchases[r] = 1 =>
               /\ reviews[r].executed
               /\ reviews[r].totalPledged > 0
               /\ now >= reviews[r].deadline
               /\ hist.spent[r] = reviews[r].totalPledged
               /\ hist.executions[r] = 1 \/ Buying(r)
        /\ hist.purchases[r] = 0 => hist.spent[r] = 0
        /\ (hist.executions[r] = 1 /\ reviews[r].totalPledged > 0)
               => hist.purchases[r] = 1

C32_Frozen ==
    \A r \in ReviewIds :
        (reviews[r].exists /\ now >= reviews[r].deadline) =>
            /\ reviews'[r].totalPledged = reviews[r].totalPledged
            /\ reviews'[r].deadline = reviews[r].deadline

\* C32: for every review buyJob is called at most once, by the executeReview
\* that executes the review, only at or after the deadline and only when
\* totalPledged > 0, with a value equal to the review's totalPledged, which no
\* step changes from the deadline on; an execution with totalPledged > 0 has
\* made that call.
C32_OnePurchaseOfTotalPledged == [](C32_Purchases) /\ [][C32_Frozen]_vars

\* An executed review whose purchase spent the pledges of two agents, while
\* the contract also held the review's fee and unpledged escrow.
C32_Witness ==
    \E r \in ReviewIds :
        /\ hist.executions[r] = 1
        /\ hist.purchases[r] = 1
        /\ hist.spent[r] = 3
        /\ reviews[r].totalPledged = 3
        /\ Len(reviewAgents[r]) = 2
        /\ \E a \in Agents : agentEscrow[a] > 0

\* ----------------------------------------------------------------------- C33

\* C33 as stated: after an executeReview with totalPledged > 0 has returned,
\* totalPurchased is the quantity of the review's token that the venue
\* delivered to the contract in the buyJob of that review, whatever the venue
\* did during the call.
C33_PurchasedIsDelivered ==
    \A r \in ReviewIds :
        (hist.executions[r] = 1 /\ reviews[r].totalPledged > 0)
            => reviews[r].totalPurchased = hist.delivered[r]

\* The review was executed and its totalPurchased counts, besides the token its
\* own buyJob delivered, the token delivered to an executeReview of another
\* review of the same token that ran during that buyJob.
C33_Witness ==
    \E r \in ReviewIds :
        /\ stack = <<>>
        /\ hist.executions[r] = 1
        /\ reviews[r].totalPledged > 0
        /\ hist.delivered[r] = 1
        /\ reviews[r].totalPurchased = 2
        /\ tokenBal[reviews[r].tokenAddress] = 2

\* ----------------------------------------------------------------------- C34

\* The preconditions of submitThesis that a call violates, as positions in the
\* order of the documentation: 1 review exists, 2 not executed, 3 window open,
\* 4 delegation present, 5 delegation not expired, 6 no earlier thesis, and for
\* a bullish thesis 7 amount > 0, 8 amount within the limit, 9 escrow suffices.
Violated(r, a, b, amt, p) ==
    LET d == delegations[p][a] IN
    (IF ~reviews[r].exists THEN {1} ELSE {})
    \cup (IF reviews[r].executed THEN {2} ELSE {})
    \cup (IF now >= reviews[r].deadline THEN {3} ELSE {})
    \cup (IF d.delegate # a THEN {4} ELSE {})
    \cup (IF d.expiry # 0 /\ now >= d.expiry THEN {5} ELSE {})
    \cup (IF theses[r][a].agent # Null THEN {6} ELSE {})
    \cup (IF b /\ amt = 0 THEN {7} ELSE {})
    \cup (IF b /\ amt > d.maxAmount THEN {8} ELSE {})
    \cup (IF b /\ amt > agentEscrow[a] THEN {9} ELSE {})

Message ==
    <<"Review does not exist", "Already executed", "Review window closed",
      "No valid delegation", "Delegation expired", "Thesis already submitted",
      "Must pledge > 0 if bullish", "Exceeds delegation limit", "Insufficient escrow">>

First(S) == CHOOSE k \in S : \A j \in S : k <= j

\* C34: submitThesis reports the first violated precondition in the order
\* review exists, not executed, window open, delegation present, delegation
\* not expired, no earlier thesis, and for a bullish thesis amount > 0, amount
\* within the limit, escrow sufficient; it is accepted when none is violated.
C34_FirstViolatedReported ==
    \A r \in ReviewIds, a \in Agents, b \in BOOLEAN, amt \in 0 .. MaxPledge,
       p \in Principals :
        LET V == Violated(r, a, b, amt, p) IN
        submitThesisResult(r, a, b, amt, p) =
            IF V = {} THEN "OK" ELSE Message[First(V)]

\* An executed review past its deadline on which the agent has a thesis, named
\* with a principal that gave the agent no grant and with a bullish amount of
\* 0: of the five violated preconditions the call reports the first, "Already
\* executed".
C34_Witness ==
    \E r \in ReviewIds, a \in Agents :
        /\ Violated(r, a, TRUE, 0, "p1") = {2, 3, 4, 6, 7}
        /\ submitThesisResult(r, a, TRUE, 0, "p1") = "Already executed"

\* ----------------------------------------------------------------------- C35

\* The claim on top of the stack ends without a successful transfer.
ClaimFails ==
    /\ stack # <<>>
    /\ Top.pc = "transfer"
    /\ stack' = Pop
    /\ hist'.claims[Top.reviewId][Top.sender] = hist.claims[Top.reviewId][Top.sender]

\* A claim of agent a on review r is waiting for its transfer.
Claiming(r, a) ==
    \E k \in 1 .. Len(stack) :
        /\ stack[k].fn = "claimTokens"
        /\ stack[k].reviewId = r
        /\ stack[k].sender = a

\* A failed claim leaves the storage and the token holdings as they were when
\* it was called, with the share unclaimed and claimable.
C35_Undone ==
    \A r \in ReviewIds, a \in Agents :
        (ClaimFails /\ Top.reviewId = r /\ Top.sender = a) =>
            /\ ~agentShares'[r][a].claimed
            /\ agentShares'[r][a].tokenShare = Top.entry.agentShares[r][a].tokenShare
            /\ agentShares' = Top.entry.agentShares
            /\ tokenBal' = Top.entry.tokenBal
            /\ reviews' = Top.entry.reviews
            /\ agentEscrow' = Top.entry.agentEscrow
            /\ balance' = Top.entry.balance
            /\ hist'.received = Top.entry.hist.received
            /\ claimTokensResult(r, a)' = "OK"

\* `claimed` is set only by a claim whose transfer succeeded, or by one still
\* waiting for its transfer.
C35_ClaimedIsPaid ==
    \A r \in ReviewIds, a \in Agents :
        agentShares[r][a].claimed => (hist.claims[r][a] = 1 \/ Claiming(r, a))

\* C35: when the token transfer of claimTokens fails the claim has no effect
\* (claimed stays false, tokenShare is unchanged, the agent can claim again),
\* and claimed is true only through a claim whose transfer succeeded.
C35_FailedClaimHasNoEffect == [](C35_ClaimedIsPaid) /\ [][C35_Undone]_vars

\* A claim made directly by the agent is waiting for a transfer that will
\* fail: the flag is set and the tokens are counted as sent.
C35_Witness ==
    /\ Len(stack) = 1
    /\ Top.pc = "transfer"
    /\ "transfer" \in env.failing
    /\ agentShares[Top.reviewId][Top.sender].claimed
    /\ ~Top.entry.agentShares[Top.reviewId][Top.sender].claimed
    /\ hist.claims[Top.reviewId][Top.sender] = 0
    /\ tokenBal[reviews[Top.reviewId].tokenAddress]
           < Top.entry.tokenBal[reviews[Top.reviewId].tokenAddress]

\* ----------------------------------------------------------------------- C36

\* The step is a successful updateReputation for agent a: the only writer of
\* the trade counters of an identity that already exists.
Updated(a) ==
    /\ agentIdentities[a].agentAddress # Null
    /\ agentIdentities'[a] # agentIdentities[a]

C36_Update ==
    \A a \in Agents :
        Updated(a) =>
            LET old == agentIdentities[a]
                new == agentIdentities'[a]
            IN /\ new.totalTrades = old.totalTrades + 1
               /\ \/ /\ new.reputationScore = old.reputationScore + 1
                     /\ new.profitableTrades = old.profitableTrades + 1
                  \/ /\ new.reputationScore = old.reputationScore - 1
                     /\ new.profitableTrades = old.profitableTrades
               /\ new.agentAddress = old.agentAddress

C36_Arithmetic ==
    \A a \in Agents :
        agentIdentities[a].agentAddress # Null =>
            /\ agentIdentities[a].profitableTrades <= agentIdentities[a].totalTrades
            /\ agentIdentities[a].reputationScore =
                   2 * agentIdentities[a].profitableTrades - agentIdentities[a].totalTrades

\* C36: every successful updateReputation adds 1 to totalTrades and either
\* adds 1 to reputationScore and profitableTrades or subtracts 1 from
\* reputationScore, also when repeated for the same review and agent; so for
\* every registered agent profitableTrades <= totalTrades and
\* reputationScore = 2 * profitableTrades - totalTrades.
C36_ReputationArithmetic == [](C36_Arithmetic) /\ [][C36_Update]_vars

\* Two unprofitable outcomes recorded for the same agent on the only review of
\* the run: the score is below zero.
C36_Witness ==
    /\ nextReviewId = 1
    /\ \E a \in Agents :
           /\ agentIdentities[a].agentAddress = a
           /\ agentIdentities[a].totalTrades = 2
           /\ agentIdentities[a].profitableTrades = 0
           /\ agentIdentities[a].reputationScore = -2

\* ----------------------------------------------------------------------- C37

\* Principal p has a delegation to agent a.
Granted(p, a) == delegations[p][a].delegate = a

\* The time is at or past the expiry of the delegation of p to a.
Lapsed(p, a) == delegations[p][a].expiry > 0 /\ now >= delegations[p][a].expiry

\* Review r accepts theses, and agent a has none on it.
Awaits(r, a) ==
    /\ reviewExists(r)
    /\ reviewOpen(r) = "OK"
    /\ theses[r][a].agent = Null

\* C37: a delegation with expiry 0 is never rejected as expired, and one with
\* expiry e > 0 is rejected as expired by depositForAgent and by submitThesis
\* exactly when now >= e.
C37_ExpiredExactlyFromExpiry ==
    \A p \in Principals, a \in Agents :
        Granted(p, a) =>
            /\ \A v \in 0 .. MaxValue :
                   (depositForAgentResult(p, a, v) = "Delegation expired") <=> Lapsed(p, a)
            /\ \A r \in ReviewIds, b \in BOOLEAN, amt \in 0 .. MaxPledge :
                   Awaits(r, a) =>
                       ((submitThesisResult(r, a, b, amt, p) = "Delegation expired")
                            <=> Lapsed(p, a))
            /\ Lapsed(p, a) => depositForAgentResult(p, a, 1) # "OK"
            /\ ~Lapsed(p, a) => depositForAgentResult(p, a, 1) = "OK"
            /\ \A r \in ReviewIds :
                   Awaits(r, a) =>
                       ((submitThesisResult(r, a, FALSE, 0, p) = "OK") <=> ~Lapsed(p, a))

\* In the block of its expiry a delegation is refused by both functions on a
\* review that is open, while a delegation without expiry to the same agent is
\* accepted by both.
C37_Witness ==
    \E p, q \in Principals, a \in Agents, r \in ReviewIds :
        /\ Granted(p, a)
        /\ delegations[p][a].expiry = now
        /\ now > 0
        /\ Awaits(r, a)
        /\ depositForAgentResult(p, a, 1) = "Delegation expired"
        /\ submitThesisResult(r, a, FALSE, 0, p) = "Delegation expired"
        /\ Granted(q, a)
        /\ delegations[q][a].expiry = 0
        /\ depositForAgentResult(q, a, 1) = "OK"
        /\ submitThesisResult(r, a, FALSE, 0, q) = "OK"

\* ----------------------------------------------------------------------- C38

\* The step is a successful submitThesis of agent a on review r.
Pledges(r, a) == theses[r][a].agent = Null /\ theses'[r][a].agent = a

\* Principal p is the only one that ever deposited into the escrow of agent a.
OnlyFunder(p, a) == env.depositors = {p} /\ hist.deposited[a] > 0

\* C38 as stated: when principal p is the only one that ever deposited into
\* the escrow of agent a, no pledge of a exceeds the maxAmount of p's
\* delegation to a, whatever other principals delegate to a.
C38_FunderLimitBindsPledge ==
    [][\A p \in Principals, a \in Agents, r \in ReviewIds :
           (OnlyFunder(p, a) /\ Pledges(r, a)) =>
               agentShares'[r][a].pledgedAmount <= delegations[p][a].maxAmount]_vars

\* p1 grants a1 a limit of 1 and deposits 2; p2 grants a1 a limit of 2 and
\* deposits nothing; a1 has pledged 2, naming p2.
C38_Witness ==
    \E r \in ReviewIds :
        /\ OnlyFunder("p1", "a1")
        /\ hist.deposited["a1"] = 2
        /\ delegations["p1"]["a1"].delegate = "a1"
        /\ delegations["p1"]["a1"].maxAmount = 1
        /\ delegations["p2"]["a1"].maxAmount = 2
        /\ agentShares[r]["a1"].pledgedAmount = 2
        /\ agentEscrow["a1"] = 0

\* ----------------------------------------------------------------------- C39

\* The tokens of review r that its agents can still claim.
Unclaimed(r) ==
    SumOver([a \in Agents |-> IF agentShares[r][a].claimed THEN 0
                              ELSE agentShares[r][a].tokenShare], Agents)

\* The tokens `token` that the contract owes: the unclaimed shares of the
\* executed reviews of that token.
Owed(token) ==
    SumOver([r \in ReviewIds |->
                 IF reviews[r].executed /\ reviews[r].tokenAddress = token
                 THEN Unclaimed(r) ELSE 0], ReviewIds)

\* C39 as stated: the contract's holdings of every token are at least the sum
\* of the unclaimed tokenShares of the executed reviews of that token, so that
\* every open claim can be paid, also with several reviews of the same token.
C39_AssetSolvency == \A token \in ListedTokens : tokenBal[token] >= Owed(token)

\* Two executed reviews of one token, between transactions: shares of 3 tokens
\* are unclaimed and the contract holds 2.
C39_Witness ==
    /\ stack = <<>>
    /\ \E token \in ListedTokens :
           /\ Owed(token) = 3
           /\ tokenBal[token] = 2
           /\ \A r \in ReviewIds :
                  /\ hist.executions[r] = 1
                  /\ reviews[r].tokenAddress = token

\* ----------------------------------------------------------------------- C40

\* What the contract owes in HBAR: every escrow balance, and the pledges and
\* the fee of every review not yet executed.
Owing ==
    SumOver(agentEscrow, AgentArgs)
    + SumOver([r \in ReviewIds |->
                   IF reviews[r].executed THEN 0
                   ELSE reviews[r].totalPledged + reviews[r].submissionFee], ReviewIds)

\* The fee of review r still to be paid out by the execution in frame k.
FeeLeft(k) == reviews[stack[k].reviewId].submissionFee - PaidOn(stack[k].reviewId)

\* C40: the contract's HBAR balance is at least the sum of all escrow balances
\* and, over the reviews not yet executed, of totalPledged and submissionFee;
\* so an execution has the funds for the purchase and for the fee payments.
C40_CapitalSolvency ==
    /\ balance >= Owing
    /\ \A r \in ReviewIds :
           executeReviewResult(r) = "OK" =>
               balance >= reviews[r].totalPledged + reviews[r].submissionFee
    /\ \A k \in 1 .. Len(stack) :
           (stack[k].fn = "executeReview" /\ stack[k].pc = "fee") =>
               balance >= FeeLeft(k)

\* An open review with a pledge of 1 and a fee of 1 while 1 HBAR is left in
\* escrow: the balance of 3 is exactly what is owed.
C40_Witness ==
    \E r \in ReviewIds :
        /\ reviews[r].exists
        /\ ~reviews[r].executed
        /\ reviews[r].totalPledged = 1
        /\ reviews[r].submissionFee = 1
        /\ SumOver(agentEscrow, AgentArgs) = 1
        /\ balance = 3
        /\ Owing = 3

====
